---- MODULE Spec2Model ----
(***************************************************************************)
(* USB-testbench: the benchmark execution engine (src/benchmark.py), its   *)
(* two helpers clear_cache and read_with_no_buffering (src/utils.py) and   *)
(* the session driver main (src/main.py).                                  *)
(*                                                                         *)
(* Time is the value of time.time(), counted in clock ticks of a quarter   *)
(* of a second; an operation that takes less than one tick has a measured  *)
(* duration of 0.  Python floats are modelled by exact rationals <<n, d>>  *)
(* in lowest terms with d > 0.                                             *)
(***************************************************************************)
EXTENDS Integers, Sequences, FiniteSets, TLC

----------------------------------------------------------------------------
(* Bounds of the model *)

MaxCount == 3
MaxFiles == 4
MaxSizeMB == 2
MaxTick == 2
MaxDelay == 2
TicksPerSecond == 4
CadenceDelay == 1
SessionCount == 1
SessionDelay == 6

(* Program constants *)

QuickThreshold == 20
PeriodicEvery == 5
MaxThroughputFiles == 3
SeekQuickThreshold == 30
SeekQuickSizeMB == 30
BlockSize == 4096
DefaultNumFiles == 10
SeekSizeCapMB == 100
ArrayMB == 100
ChunkMB == 10
SectorSize == 4096
MaxSessions == 1
MaxSaves == 3
MB == 1024 * 1024

----------------------------------------------------------------------------
(* Float arithmetic, as exact rationals *)

Abs(x) == IF x < 0 THEN -x ELSE x

RECURSIVE GCD(_, _)
GCD(a, b) == IF b = 0 THEN a ELSE GCD(b, a % b)

\* the quotient n / d, for d # 0
Rat(n, d) ==
    LET g == GCD(Abs(n), Abs(d))
        s == IF d < 0 THEN -1 ELSE 1
    IN  <<(s * n) \div g, Abs(d) \div g>>

RLe(a, b) == a[1] * b[2] <= b[1] * a[2]

RLt(a, b) == a[1] * b[2] < b[1] * a[2]

RAdd(a, b) == Rat(a[1] * b[2] + b[1] * a[2], a[2] * b[2])

RDivInt(a, n) == Rat(a[1], a[2] * n)

\* sum(S), adding the two halves of S so that the recursion stays shallow
RECURSIVE RSum(_)
RSum(S) ==
    IF Len(S) = 0 THEN <<0, 1>>
    ELSE IF Len(S) = 1 THEN S[1]
    ELSE LET h == Len(S) \div 2
             a == RSum(SubSeq(S, 1, h))
             b == RSum(SubSeq(S, h + 1, Len(S)))
         IN  RAdd(a, b)

Range(S) == {S[k] : k \in 1..Len(S)}

Last(events) == events[Len(events)]

Min2(a, b) == IF a <= b THEN a ELSE b

----------------------------------------------------------------------------
(* statistics.mean, min, max, statistics.median over a list of floats *)

meanNoDivision(S) ==
    IF Len(S) = 0
    THEN [ok |-> FALSE, exc |-> "StatisticsError"]
    ELSE [ok |-> TRUE, v |-> RSum(S)]

meanWrongDivisor(S) ==
    IF Len(S) = 0
    THEN [ok |-> FALSE, exc |-> "StatisticsError"]
    ELSE [ok |-> TRUE, v |-> RDivInt(RSum(S), Len(S) + 1)]

meanOfEmptyIsZero(S) ==
    IF Len(S) = 0
    THEN [ok |-> TRUE, v |-> <<0, 1>>]
    ELSE [ok |-> TRUE, v |-> RDivInt(RSum(S), Len(S))]

mean(S) ==
    IF Len(S) = 0
    THEN [ok |-> FALSE, exc |-> "StatisticsError"]
    ELSE [ok |-> TRUE, v |-> RDivInt(RSum(S), Len(S))]

min(S) == CHOOSE x \in Range(S) : \A y \in Range(S) : RLe(x, y)

max(S) == CHOOSE x \in Range(S) : \A y \in Range(S) : RLe(y, x)

medianUnsorted(S) ==
    LET n == Len(S)
        i == n \div 2
    IN  IF n % 2 = 1
        THEN S[i + 1]
        ELSE RDivInt(RAdd(S[i], S[i + 1]), 2)

median(S) ==
    LET data == SortSeq(S, RLt)
        n == Len(data)
        i == n \div 2
    IN  IF n % 2 = 1
        THEN data[i + 1]
        ELSE RDivInt(RAdd(data[i], data[i + 1]), 2)

\* the exception that building a summary dictionary raises: the values are
\* evaluated in order, statistics.mean first, then min
SummaryError(S) ==
    IF ~mean(S).ok THEN mean(S).exc
    ELSE IF Len(S) = 0 THEN "ValueError"
    ELSE "none"

----------------------------------------------------------------------------
(* State *)

VARIABLES
    HAS_WIN32,       \* utils.HAS_WIN32: whether the win32file import succeeded
    entry,           \* the function the caller invoked
    args,            \* the arguments of the workload call in progress
    pc,              \* position in the code
    now,             \* time.time(), in ticks
    budget,          \* ticks of measurable delay the device may still add
    dirs,            \* scratch directories that exist on the drive
    io,              \* I/O performed so far: directories made, files written, cache flushes
    benchmark_dir,   \* local benchmark_dir
    i,               \* loop index
    latencies,       \* local latencies
    throughputs,     \* local throughputs
    results,         \* local results / the returned dictionary
    ret,             \* how the workload call ended: "none", "returned", "raised"
    error,           \* the exception that left the workload call
    file_paths,      \* local file_paths of read_benchmark
    file_sizes,      \* local file_sizes of read_benchmark
    positions,       \* local positions of random_seek_benchmark
    last_read,       \* what the last read_with_no_buffering call did
    log,             \* the clear_cache calls, preparation writes and timed operations
                     \* of the workload part in progress, in order
    session,         \* the frame of main: its position, its configuration, the
                     \* results it holds and what it has printed
    db,              \* benchmark_results.db: the rows of its tables, and the
                     \* arguments of the calls that saved benchmark results
    call             \* the frame of a call of read_with_no_buffering that is followed
                     \* statement by statement, and the file that it reads

\* what no workload function touches
outer == <<HAS_WIN32, entry, session, db, call>>

\* the locals that only read_benchmark and random_seek_benchmark have
readLocals == <<file_paths, file_sizes, positions, last_read>>

vars == <<outer, args, pc, now, budget, dirs, io, log, benchmark_dir, i,
          latencies, throughputs, results, ret, error, readLocals>>

EmptyDict == [k \in {} |-> 0]

NoDir == <<"none", 0>>

NoRead == [direct |-> "none", fallback |-> FALSE, ok |-> TRUE, exc |-> "none",
           duration |-> 0, throughput |-> <<0, 1>>]

LatencyCounts == -1..MaxCount
NumFiles == 0..MaxFiles
ThroughputSizes == -1..MaxSizeMB
SeekCounts == -1..MaxCount
SeekSizes == -1..MaxSizeMB

WriteReadArgs ==
    [test_latency : BOOLEAN, test_throughput : BOOLEAN,
     latency_file_count : LatencyCounts, num_files : NumFiles,
     throughput_file_size_mb : ThroughputSizes,
     num_seeks : {0}, file_size_mb : {0}]

SeekArgs ==
    [test_latency : {FALSE}, test_throughput : {FALSE},
     latency_file_count : {0}, num_files : {0},
     throughput_file_size_mb : {0},
     num_seeks : SeekCounts, file_size_mb : SeekSizes]

\* main has not been entered: a workload function is called on its own
NoSession == [phase |-> "none"]

\* the arguments of a function that is not a workload
NoArgs ==
    [test_latency |-> FALSE, test_throughput |-> FALSE,
     latency_file_count |-> 0, num_files |-> 0,
     throughput_file_size_mb |-> 0, num_seeks |-> 0, file_size_mb |-> 0]

\* no call of read_with_no_buffering is followed
NoCall == [file_size_bytes |-> 0]

\* the tables that init_database has created, without a row
EmptyDatabase ==
    [devices |-> {}, benchmark_sessions |-> <<>>, benchmark_results |-> {},
     saved |-> <<>>]

\* the state before the first statement of the function called
Start ==
    /\ file_paths = <<>>
    /\ file_sizes = <<>>
    /\ positions = <<>>
    /\ last_read = NoRead
    /\ pc = entry
    /\ now = 0
    /\ dirs = {}
    /\ io = [mkdir |-> 0, write |-> 0, flush |-> 0, made |-> <<>>]
    /\ log = <<>>
    /\ db = EmptyDatabase
    /\ benchmark_dir = NoDir
    /\ i = 0
    /\ latencies = <<>>
    /\ throughputs = <<>>
    /\ results = EmptyDict
    /\ ret = "none"
    /\ error = "none"

Init ==
    /\ entry \in {"write_benchmark", "read_benchmark", "random_seek_benchmark"}
    /\ HAS_WIN32 \in IF entry = "read_benchmark" THEN BOOLEAN ELSE {FALSE}
    /\ args \in IF entry = "random_seek_benchmark" THEN SeekArgs ELSE WriteReadArgs
    /\ session = NoSession
    /\ budget = MaxDelay
    /\ call = NoCall
    /\ Start

----------------------------------------------------------------------------
(* Helpers shared by the workloads *)

\* timestamp = int(time.time())
Timestamp(t) == t \div TicksPerSecond

\* os.path.join(drive_path, f"{prefix}_{timestamp}")
ScratchName(prefix, t) == <<prefix, Timestamp(t)>>

\* shutil.rmtree(benchmark_dir): the directories left on the drive
rmtreeKeeps(ds, d) == ds

rmtree(ds, d) == ds \ {d}

\* for i in range(n): the loop is over once i has reached n
RangeDoneOffByOne(k, n) == k >= n - 1

RangeDone(k, n) == k >= n

\* the number of iterations of for i in range(n)
RangeLen(n) == IF n > 0 THEN n ELSE 0

\* duration = end_time - start_time
DurationSwapped(start_time, end_time) == start_time - end_time

Duration(start_time, end_time) == end_time - start_time

\* the delays the timed operation can take
Delays == 0..Min2(MaxTick, budget)

\* clear_cache() ends with time.sleep(0.25)
ClearCacheTicks == TicksPerSecond \div 4

\* an entry of the log: what was done, in which iteration of the loop (BeforeLoop
\* outside the loop), and the time.time() at its start and at its end
Event(op, at, t0, t1) == [op |-> op, at |-> at, t0 |-> t0, t1 |-> t1]

BeforeLoop == -1

\* a clear_cache() call made at time t
ClearCache(at, t) == Event("clear_cache", at, t, t + ClearCacheTicks)

\* if latency_file_count <= 20: the cache is cleared once before the batch
QuickTest(count) == count <= QuickThreshold

\* if latency_file_count > 20 and i % 5 == 0: the cache is cleared in the loop
PeriodicFlushEveryIteration(count, k) == count > QuickThreshold

PeriodicFlushAfterFive(count, k) == count > QuickThreshold /\ k % PeriodicEvery = PeriodicEvery - 1

PeriodicFlush(count, k) == count > QuickThreshold /\ k % PeriodicEvery = 0

\* throughput = size / duration
Throughput(size, duration) ==
    IF duration = 0
    THEN [ok |-> FALSE, exc |-> "ZeroDivisionError"]
    ELSE [ok |-> TRUE, v |-> Rat(size, duration)]

\* results.update({...}): the new keys are added to those already there
updateReplaces(d, new) == new

update(d, new) == new @@ d

\* an exception leaves the workload function
Raise(exc) ==
    /\ ret' = "raised"
    /\ error' = exc
    /\ pc' = "exit"

----------------------------------------------------------------------------
(* write_benchmark *)

write_benchmark ==
    /\ pc = "write_benchmark"
    /\ results' = EmptyDict
    /\ pc' = IF args.test_latency THEN "wl_setup"
             ELSE IF args.test_throughput THEN "wt_setup" ELSE "w_return"
    /\ UNCHANGED <<outer, readLocals, args, now, budget, dirs, io, log, benchmark_dir, i,
                   latencies, throughputs, ret, error>>

WriteLatencySetup ==
    /\ pc = "wl_setup"
    /\ LET dir == ScratchName("benchmark_test_lat", now)
           quick == QuickTest(args.latency_file_count)
       IN  \/ /\ dirs' = dirs \cup {dir}
              /\ benchmark_dir' = dir
              /\ latencies' = <<>>
              /\ i' = 0
              /\ io' = [io EXCEPT !.mkdir = @ + 1,
                                  !.made = Append(@, dir),
                                  !.flush = @ + (IF quick THEN 1 ELSE 0)]
              /\ log' = IF quick THEN <<ClearCache(BeforeLoop, now)>> ELSE <<>>
              /\ now' = now + (IF quick THEN ClearCacheTicks ELSE 0)
              /\ pc' = "wl_loop"
              /\ UNCHANGED <<ret, error>>
           \/ /\ Raise("OSError")
              /\ UNCHANGED <<dirs, benchmark_dir, latencies, i, io, log, now>>
    /\ UNCHANGED <<outer, readLocals, args, budget, throughputs, results>>

WriteLatencyIter ==
    /\ pc = "wl_loop"
    /\ ~RangeDone(i, args.latency_file_count)
    /\ LET flush == PeriodicFlush(args.latency_file_count, i)
           start_time == now + (IF flush THEN ClearCacheTicks ELSE 0)
           flushed == IF flush THEN Append(log, ClearCache(i, now)) ELSE log
       IN  /\ io' = [io EXCEPT !.flush = @ + (IF flush THEN 1 ELSE 0),
                               !.write = @ + 1]
           /\ \/ \E d \in Delays :
                    /\ now' = start_time + d
                    /\ budget' = budget - d
                    /\ latencies' = Append(latencies, Rat(Duration(start_time, now'), 1))
                    /\ log' = Append(flushed, Event("write", i, start_time, now'))
                    /\ i' = i + 1
                    /\ UNCHANGED <<pc, ret, error>>
              \/ /\ Raise("OSError")
                 /\ now' = start_time
                 /\ log' = flushed
                 /\ UNCHANGED <<budget, latencies, i>>
    /\ UNCHANGED <<outer, readLocals, args, dirs, benchmark_dir, throughputs, results>>

WriteLatencyTeardown ==
    /\ pc = "wl_loop"
    /\ RangeDone(i, args.latency_file_count)
    /\ \/ /\ dirs' = rmtree(dirs, benchmark_dir)
          /\ pc' = "wl_stats"
          /\ UNCHANGED <<ret, error>>
       \/ /\ Raise("OSError")
          /\ UNCHANGED dirs
    /\ UNCHANGED <<outer, readLocals, args, now, budget, io, log, benchmark_dir, i,
                   latencies, throughputs, results>>

WriteLatencyStats ==
    /\ pc = "wl_stats"
    /\ IF SummaryError(latencies) = "none"
       THEN /\ results' = update(results,
                  [write_latency_avg |-> mean(latencies).v,
                   write_latency_min |-> min(latencies),
                   write_latency_max |-> max(latencies),
                   write_latency_median |-> median(latencies),
                   write_latency_file_size_kb |-> 4,
                   write_latency_file_count |-> args.latency_file_count])
            /\ pc' = IF args.test_throughput THEN "wt_setup" ELSE "w_return"
            /\ UNCHANGED <<ret, error>>
       ELSE /\ Raise(SummaryError(latencies))
            /\ UNCHANGED results
    /\ UNCHANGED <<outer, readLocals, args, now, budget, dirs, io, log, benchmark_dir, i,
                   latencies, throughputs>>

\* throughput_file_count = min(3, num_files)
ThroughputFileCount(num_files) == Min2(MaxThroughputFiles, num_files)

WriteThroughputSetup ==
    /\ pc = "wt_setup"
    /\ LET dir == ScratchName("benchmark_test_thr", now)
       IN  \/ /\ dirs' = dirs \cup {dir}
              /\ benchmark_dir' = dir
              /\ throughputs' = <<>>
              /\ i' = 0
              /\ io' = [io EXCEPT !.mkdir = @ + 1, !.made = Append(@, dir)]
              /\ log' = <<>>
              /\ pc' = "wt_loop"
              /\ UNCHANGED <<ret, error>>
           \/ /\ Raise("OSError")
              /\ UNCHANGED <<dirs, benchmark_dir, throughputs, i, io, log>>
    /\ UNCHANGED <<outer, readLocals, args, now, budget, latencies, results>>

WriteThroughputIter ==
    /\ pc = "wt_loop"
    /\ ~RangeDone(i, ThroughputFileCount(args.num_files))
    /\ IF args.throughput_file_size_mb < 0
       THEN \* os.urandom of a negative size
            /\ Raise("ValueError")
            /\ UNCHANGED <<now, budget, io, log, throughputs, i>>
       ELSE LET start_time == now + ClearCacheTicks
                flushed == Append(log, ClearCache(i, now))
            IN  /\ io' = [io EXCEPT !.flush = @ + 1, !.write = @ + 1]
                /\ \/ \E d \in Delays :
                         LET t == Throughput(args.throughput_file_size_mb,
                                             Duration(start_time, start_time + d))
                         IN  /\ now' = start_time + d
                             /\ budget' = budget - d
                             /\ log' = Append(flushed,
                                              Event("write", i, start_time, now'))
                             /\ IF t.ok
                                THEN /\ throughputs' = Append(throughputs, t.v)
                                     /\ i' = i + 1
                                     /\ UNCHANGED <<pc, ret, error>>
                                ELSE /\ Raise(t.exc)
                                     /\ UNCHANGED <<throughputs, i>>
                   \/ /\ Raise("OSError")
                      /\ now' = start_time
                      /\ log' = flushed
                      /\ UNCHANGED <<budget, throughputs, i>>
    /\ UNCHANGED <<outer, readLocals, args, dirs, benchmark_dir, latencies, results>>

WriteThroughputTeardown ==
    /\ pc = "wt_loop"
    /\ RangeDone(i, ThroughputFileCount(args.num_files))
    /\ \/ /\ dirs' = rmtree(dirs, benchmark_dir)
          /\ pc' = "wt_stats"
          /\ UNCHANGED <<ret, error>>
       \/ /\ Raise("OSError")
          /\ UNCHANGED dirs
    /\ UNCHANGED <<outer, readLocals, args, now, budget, io, log, benchmark_dir, i,
                   latencies, throughputs, results>>

WriteThroughputStats ==
    /\ pc = "wt_stats"
    /\ IF SummaryError(throughputs) = "none"
       THEN /\ results' = update(results,
                  [write_throughput_avg |-> mean(throughputs).v,
                   write_throughput_min |-> min(throughputs),
                   write_throughput_max |-> max(throughputs),
                   write_throughput_file_size_mb |-> args.throughput_file_size_mb,
                   write_throughput_file_count |-> ThroughputFileCount(args.num_files)])
            /\ pc' = "w_return"
            /\ UNCHANGED <<ret, error>>
       ELSE /\ Raise(SummaryError(throughputs))
            /\ UNCHANGED results
    /\ UNCHANGED <<outer, readLocals, args, now, budget, dirs, io, log, benchmark_dir, i,
                   latencies, throughputs>>

WriteReturn ==
    /\ pc = "w_return"
    /\ ret' = "returned"
    /\ pc' = "exit"
    /\ UNCHANGED <<outer, readLocals, args, now, budget, dirs, io, log, benchmark_dir, i,
                   latencies, throughputs, results, error>>

----------------------------------------------------------------------------
(* read_with_no_buffering *)

\* throughput = file_size_bytes / (1024 * 1024) / duration
ReadThroughputInBytes(file_size_bytes, duration) == Throughput(file_size_bytes, duration)

ReadThroughput(file_size_bytes, duration) == Throughput(file_size_bytes, MB * duration)

\* standard_reading(): the buffered read of the whole file, started at start_time;
\* opened says whether open() and the reads succeed, d is the time they take
standard_reading(file_size_bytes, start_time, opened, d) ==
    LET duration == Duration(start_time, start_time + d)
        t == ReadThroughput(file_size_bytes, duration)
    IN  IF ~opened
        THEN [ok |-> FALSE, exc |-> "OSError", duration |-> 0, throughput |-> <<0, 1>>]
        ELSE IF ~t.ok
        THEN [ok |-> FALSE, exc |-> t.exc, duration |-> duration, throughput |-> <<0, 1>>]
        ELSE [ok |-> TRUE, exc |-> "none", duration |-> duration, throughput |-> t.v]

\* what the direct path can do: "unavailable" without PyWin32, else CreateFile fails,
\* ReadFile returns an error code, or the read loop runs to its end
DirectOutcomes == IF HAS_WIN32 THEN {"open_failed", "read_error", "read"}
                  ELSE {"unavailable"}

\* the direct path ends in an exception, which `except Exception` catches
DirectRaises(file_size_bytes, start_time, direct, d1) ==
    \/ direct \in {"open_failed", "read_error"}
    \/ /\ direct = "read"
       /\ ~ReadThroughput(file_size_bytes, Duration(start_time, start_time + d1)).ok

\* the call: direct is what the direct path does, d1 the time its read loop takes,
\* opened and d2 what the buffered fallback does
read_with_no_buffering(file_size_bytes, start_time, direct, d1, opened, d2) ==
    IF direct = "unavailable" \/ DirectRaises(file_size_bytes, start_time, direct, d1)
    THEN [direct |-> direct, fallback |-> TRUE]
         @@ standard_reading(file_size_bytes, start_time + d1, opened, d2)
    ELSE LET duration == Duration(start_time, start_time + d1)
         IN  [direct |-> direct, fallback |-> FALSE, ok |-> TRUE, exc |-> "none",
              duration |-> duration,
              throughput |-> ReadThroughput(file_size_bytes, duration).v]

----------------------------------------------------------------------------
(* read_with_no_buffering, statement by statement *)

\* buffer_size = (buffer_size // sector_size) * sector_size, from 1 MB
buffer_size == (MB \div SectorSize) * SectorSize

\* chunk_size = 4 * 1024 * 1024 in standard_reading
chunk_size == 4 * MB

\* the declared sizes and the sizes on the drive that are tried
ReadSizeCases == {MB \div 2, MB, 2 * MB, 5 * MB}

Min0(a, b) == IF a <= b THEN a ELSE b

\* the number of bytes that a read of at most n bytes at the offset finds
BytesAt(offset, n) == Min0(n, call.on_disk - offset)

\* len(data) after ReadFile(handle, buffer) has read n bytes: the bytes read, or
\* the length of the buffer where the binding hands the buffer back
LenOfData(n) == IF call.same_buffer THEN buffer_size ELSE n

\* win32file.CloseHandle(handle)
CloseHandleSkipped(frame) == frame

CloseHandle(frame) == [frame EXCEPT !.handle = "closed", !.closed = @ + 1]

\* the frame, after a step that has taken d
Step(frame, op, at, d) ==
    /\ call' = frame
    /\ log' = Append(log, Event(op, at, now, now + d))
    /\ now' = now + d
    /\ budget' = budget - d

readFrame == <<HAS_WIN32, entry, session, db, readLocals, args, dirs, io, benchmark_dir,
               i, latencies, throughputs, results>>

\* if not HAS_WIN32: return standard_reading(); else the try block is entered
ReadCall ==
    /\ pc = "read_with_no_buffering"
    /\ pc' = IF HAS_WIN32 THEN "d_open" ELSE "sr_open"
    /\ call' = [call EXCEPT !.fallback = ~HAS_WIN32]
    /\ UNCHANGED <<readFrame, log, now, budget, ret, error>>

\* handle = win32file.CreateFile(...); buffer = bytearray(buffer_size);
\* total_bytes_read = 0; start_time = time.time()
DirectOpen ==
    /\ pc = "d_open"
    /\ \/ /\ Step([call EXCEPT !.handle = "open", !.opened = @ + 1,
                                !.total_bytes_read = 0, !.start_time = now],
                    "CreateFile", 0, 0)
          /\ pc' = "d_loop"
       \/ /\ Step([call EXCEPT !.pending = "pywintypes.error"], "raised", 0, 0)
          /\ pc' = "d_except"
    /\ UNCHANGED <<readFrame, ret, error>>

\* while total_bytes_read < file_size_bytes: error, data = ReadFile(handle, buffer);
\* if error != 0: raise Exception; if not data: break; total_bytes_read += len(data)
DirectRead ==
    /\ pc = "d_loop"
    /\ call.total_bytes_read < call.file_size_bytes
    /\ \/ \E d \in Delays :
             LET n == BytesAt(call.offset, buffer_size)
                 data == LenOfData(n)
             IN  /\ Step([call EXCEPT !.offset = @ + n,
                                      !.reads = @ + 1,
                                      !.total_bytes_read = @ + data],
                         "ReadFile", n, d)
                 /\ pc' = IF data = 0 THEN "d_done" ELSE "d_loop"
       \/ /\ Step([call EXCEPT !.reads = @ + 1, !.pending = "Exception"],
                   "raised", 0, 0)
          /\ pc' = "d_finally"
    /\ UNCHANGED <<readFrame, ret, error>>

\* the loop is over: end_time = time.time(); duration = end_time - start_time;
\* throughput = file_size_bytes / (1024 * 1024) / duration; return duration, throughput
DirectDone ==
    /\ pc \in {"d_loop", "d_done"}
    /\ pc = "d_loop" => ~(call.total_bytes_read < call.file_size_bytes)
    /\ LET duration == Duration(call.start_time, now)
           t == ReadThroughput(call.file_size_bytes, duration)
       IN  call' = IF t.ok
                   THEN [call EXCEPT !.pending = "return",
                                     !.result = [duration |-> duration,
                                                 throughput |-> t.v]]
                   ELSE [call EXCEPT !.pending = t.exc]
    /\ pc' = "d_finally"
    /\ UNCHANGED <<readFrame, log, now, budget, ret, error>>

\* finally: win32file.CloseHandle(handle); then the return or the exception goes on
DirectFinally ==
    /\ pc = "d_finally"
    /\ Step(CloseHandle(call), "CloseHandle", 0, 0)
    /\ IF call.pending = "return"
       THEN /\ ret' = "returned"
            /\ pc' = "exit"
       ELSE /\ pc' = "d_except"
            /\ UNCHANGED ret
    /\ UNCHANGED <<readFrame, error>>

\* except Exception as e: print(...); return standard_reading()
DirectExcept ==
    /\ pc = "d_except"
    /\ call' = [call EXCEPT !.fallback = TRUE, !.caught = call.pending,
                            !.pending = "none"]
    /\ pc' = "sr_open"
    /\ UNCHANGED <<readFrame, log, now, budget, ret, error>>

\* standard_reading: start_time = time.time(); with open(file_path, 'rb') as f
StandardOpen ==
    /\ pc = "sr_open"
    /\ \/ /\ Step([call EXCEPT !.start_time = now, !.offset = 0], "open", 0, 0)
          /\ pc' = "sr_loop"
          /\ UNCHANGED <<ret, error>>
       \/ /\ Step(call, "raised", 0, 0)
          /\ Raise("OSError")
    /\ UNCHANGED readFrame

\* chunk = f.read(chunk_size); if not chunk: break, and the file is closed
StandardRead ==
    /\ pc = "sr_loop"
    /\ \/ \E d \in Delays :
             LET n == BytesAt(call.offset, chunk_size)
             IN  /\ Step([call EXCEPT !.offset = @ + n, !.reads = @ + 1], "read", n, d)
                 /\ pc' = IF n = 0 THEN "sr_done" ELSE "sr_loop"
                 /\ UNCHANGED <<ret, error>>
       \/ /\ Step(call, "raised", 0, 0)
          /\ Raise("OSError")
    /\ UNCHANGED readFrame

\* end_time = time.time(); duration = end_time - start_time;
\* throughput = file_size_bytes / (1024 * 1024) / duration; return duration, throughput
StandardDone ==
    /\ pc = "sr_done"
    /\ LET duration == Duration(call.start_time, now)
           t == ReadThroughput(call.file_size_bytes, duration)
       IN  IF t.ok
           THEN /\ call' = [call EXCEPT !.result = [duration |-> duration,
                                                    throughput |-> t.v]]
                /\ ret' = "returned"
                /\ pc' = "exit"
                /\ UNCHANGED error
           ELSE /\ Raise(t.exc)
                /\ UNCHANGED call
    /\ UNCHANGED <<readFrame, log, now, budget>>

NoResult == [duration |-> 0, throughput |-> <<0, 1>>]

InitDirectRead ==
    /\ entry = "read_with_no_buffering"
    /\ HAS_WIN32 \in BOOLEAN
    /\ args = NoArgs
    /\ session = NoSession
    /\ budget = MaxDelay
    /\ Start
    /\ \E declared \in ReadSizeCases, on_disk \in ReadSizeCases \cup {0},
          same_buffer \in BOOLEAN :
          call = [file_size_bytes |-> declared, on_disk |-> on_disk,
                  same_buffer |-> same_buffer, handle |-> "none", opened |-> 0,
                  closed |-> 0, total_bytes_read |-> 0, offset |-> 0, reads |-> 0,
                  start_time |-> 0, pending |-> "none", caught |-> "none",
                  fallback |-> FALSE, result |-> NoResult]

NextDirectRead ==
    \/ ReadCall
    \/ DirectOpen
    \/ DirectRead
    \/ DirectDone
    \/ DirectFinally
    \/ DirectExcept
    \/ StandardOpen
    \/ StandardRead
    \/ StandardDone

SpecDirectRead == InitDirectRead /\ [][NextDirectRead]_vars

----------------------------------------------------------------------------
(* read_benchmark *)

read_benchmark ==
    /\ pc = "read_benchmark"
    /\ results' = EmptyDict
    /\ pc' = IF args.test_latency THEN "rl_setup"
             ELSE IF args.test_throughput THEN "rt_setup" ELSE "r_return"
    /\ UNCHANGED <<outer, readLocals, args, now, budget, dirs, io, log, benchmark_dir, i,
                   latencies, throughputs, ret, error>>

ReadLatencySetup ==
    /\ pc = "rl_setup"
    /\ LET dir == ScratchName("benchmark_test_lat", now)
       IN  \/ /\ dirs' = dirs \cup {dir}
              /\ benchmark_dir' = dir
              /\ file_paths' = <<>>
              /\ i' = 0
              /\ io' = [io EXCEPT !.mkdir = @ + 1, !.made = Append(@, dir)]
              /\ log' = <<>>
              /\ pc' = "rl_prepare"
              /\ UNCHANGED <<ret, error>>
           \/ /\ Raise("OSError")
              /\ UNCHANGED <<dirs, benchmark_dir, file_paths, i, io, log>>
    /\ UNCHANGED <<outer, args, now, budget, latencies, throughputs, results,
                   file_sizes, positions, last_read>>

\* the untimed loop that writes the files to read
ReadLatencyPrepare ==
    /\ pc = "rl_prepare"
    /\ ~RangeDone(i, args.latency_file_count)
    /\ io' = [io EXCEPT !.write = @ + 1]
    /\ \/ /\ file_paths' = Append(file_paths, <<benchmark_dir, i>>)
          /\ log' = Append(log, Event("prepare", i, now, now))
          /\ i' = i + 1
          /\ UNCHANGED <<pc, ret, error>>
       \/ /\ Raise("OSError")
          /\ UNCHANGED <<file_paths, i, log>>
    /\ UNCHANGED <<outer, args, now, budget, dirs, benchmark_dir, latencies,
                   throughputs, results, file_sizes, positions, last_read>>

\* the clear_cache() calls between the files being written and the first read:
\* always one, and once more for a quick test
PreReadFlushesNone(count) == 0

PreReadFlushes(count) == IF QuickTest(count) THEN 2 ELSE 1

\* time.sleep(1); clear_cache(); and once more for a quick test
ReadLatencyFlush ==
    /\ pc = "rl_prepare"
    /\ RangeDone(i, args.latency_file_count)
    /\ LET n == PreReadFlushes(args.latency_file_count)
           t == now + TicksPerSecond
       IN  /\ io' = [io EXCEPT !.flush = @ + n]
           /\ log' = log \o [k \in 1..n |->
                                ClearCache(BeforeLoop, t + (k - 1) * ClearCacheTicks)]
           /\ now' = t + n * ClearCacheTicks
    /\ latencies' = <<>>
    /\ i' = 0
    /\ pc' = "rl_loop"
    /\ UNCHANGED <<outer, args, budget, dirs, benchmark_dir, throughputs, results,
                   ret, error, readLocals>>

\* for i, file_path in enumerate(file_paths)
ReadLatencyIter ==
    /\ pc = "rl_loop"
    /\ ~RangeDone(i, Len(file_paths))
    /\ LET flush == PeriodicFlush(args.latency_file_count, i)
           start_time == now + (IF flush THEN ClearCacheTicks ELSE 0)
           flushed == IF flush THEN Append(log, ClearCache(i, now)) ELSE log
       IN  /\ io' = [io EXCEPT !.flush = @ + (IF flush THEN 1 ELSE 0)]
           /\ \/ \E d \in Delays :
                    /\ now' = start_time + d
                    /\ budget' = budget - d
                    /\ latencies' = Append(latencies, Rat(Duration(start_time, now'), 1))
                    /\ log' = Append(flushed,
                                     Event("read", file_paths[i + 1][2], start_time, now'))
                    /\ i' = i + 1
                    /\ UNCHANGED <<pc, ret, error>>
              \/ /\ Raise("OSError")
                 /\ now' = start_time
                 /\ log' = flushed
                 /\ UNCHANGED <<budget, latencies, i>>
    /\ UNCHANGED <<outer, readLocals, args, dirs, benchmark_dir, throughputs, results>>

ReadLatencyTeardown ==
    /\ pc = "rl_loop"
    /\ RangeDone(i, Len(file_paths))
    /\ \/ /\ dirs' = rmtree(dirs, benchmark_dir)
          /\ pc' = "rl_stats"
          /\ UNCHANGED <<ret, error>>
       \/ /\ Raise("OSError")
          /\ UNCHANGED dirs
    /\ UNCHANGED <<outer, readLocals, args, now, budget, io, log, benchmark_dir, i,
                   latencies, throughputs, results>>

ReadLatencyStats ==
    /\ pc = "rl_stats"
    /\ IF SummaryError(latencies) = "none"
       THEN /\ results' = update(results,
                  [read_latency_avg |-> mean(latencies).v,
                   read_latency_min |-> min(latencies),
                   read_latency_max |-> max(latencies),
                   read_latency_median |-> median(latencies),
                   read_latency_file_size_kb |-> 4,
                   read_latency_file_count |-> args.latency_file_count])
            /\ pc' = IF args.test_throughput THEN "rt_setup" ELSE "r_return"
            /\ UNCHANGED <<ret, error>>
       ELSE /\ Raise(SummaryError(latencies))
            /\ UNCHANGED results
    /\ UNCHANGED <<outer, readLocals, args, now, budget, dirs, io, log, benchmark_dir, i,
                   latencies, throughputs>>

\* actual_file_size_mb = throughput_file_size_mb * 2
ActualFileSizeMBAsRequested(throughput_file_size_mb) == throughput_file_size_mb

ActualFileSizeMB(throughput_file_size_mb) == throughput_file_size_mb * 2

ReadThroughputSetup ==
    /\ pc = "rt_setup"
    /\ LET dir == ScratchName("benchmark_test_thr", now)
       IN  \/ /\ dirs' = dirs \cup {dir}
              /\ benchmark_dir' = dir
              /\ file_paths' = <<>>
              /\ file_sizes' = <<>>
              /\ i' = 0
              /\ io' = [io EXCEPT !.mkdir = @ + 1, !.made = Append(@, dir)]
              /\ log' = <<>>
              /\ pc' = "rt_prepare"
              /\ UNCHANGED <<ret, error>>
           \/ /\ Raise("OSError")
              /\ UNCHANGED <<dirs, benchmark_dir, file_paths, file_sizes, i, io, log>>
    /\ UNCHANGED <<outer, args, now, budget, latencies, throughputs, results,
                   positions, last_read>>

\* the untimed loop that writes the large files, each in chunks of 1 MB, one per
\* iteration of for j in range(actual_file_size_mb)
ReadThroughputPrepare ==
    /\ pc = "rt_prepare"
    /\ ~RangeDone(i, ThroughputFileCount(args.num_files))
    /\ io' = [io EXCEPT !.write = @ + 1]
    /\ \/ /\ file_paths' = Append(file_paths, <<benchmark_dir, i>>)
          /\ file_sizes' = Append(file_sizes,
                                  ActualFileSizeMB(args.throughput_file_size_mb) * MB)
          /\ log' = log
                \o [j \in 1..RangeLen(ActualFileSizeMB(args.throughput_file_size_mb))
                       |-> Event("chunk", i, now, now)]
                \o <<Event("prepare", i, now, now)>>
          /\ i' = i + 1
          /\ UNCHANGED <<pc, ret, error>>
       \/ /\ Raise("OSError")
          /\ UNCHANGED <<file_paths, file_sizes, i, log>>
    /\ UNCHANGED <<outer, args, now, budget, dirs, benchmark_dir, latencies,
                   throughputs, results, positions, last_read>>

\* time.sleep(2); clear_cache(); time.sleep(1)
ReadThroughputFlush ==
    /\ pc = "rt_prepare"
    /\ RangeDone(i, ThroughputFileCount(args.num_files))
    /\ io' = [io EXCEPT !.flush = @ + 1]
    /\ log' = Append(log, ClearCache(BeforeLoop, now + 2 * TicksPerSecond))
    /\ now' = now + 3 * TicksPerSecond + ClearCacheTicks
    /\ throughputs' = <<>>
    /\ i' = 0
    /\ pc' = "rt_loop"
    /\ UNCHANGED <<outer, args, budget, dirs, benchmark_dir, latencies, results,
                   ret, error, readLocals>>

\* for i, (file_path, file_size) in enumerate(zip(file_paths, file_sizes)):
\* clear_cache(), then read_with_no_buffering(file_path, file_size)
ReadThroughputIter ==
    /\ pc = "rt_loop"
    /\ ~RangeDone(i, Min2(Len(file_paths), Len(file_sizes)))
    /\ io' = [io EXCEPT !.flush = @ + 1]
    /\ \E direct \in DirectOutcomes, opened \in BOOLEAN, d1 \in Delays, d2 \in Delays :
          LET start_time == now + ClearCacheTicks
              r == read_with_no_buffering(file_sizes[i + 1], start_time,
                                          direct, d1, opened, d2)
          IN  /\ direct # "read" => d1 = 0
              /\ ~(r.fallback /\ opened) => d2 = 0
              /\ d1 + d2 <= budget
              /\ last_read' = r
              /\ log' = log \o <<ClearCache(i, now),
                                  Event("read", file_paths[i + 1][2], start_time,
                                        start_time + d1 + d2)>>
              /\ now' = start_time + d1 + d2
              /\ budget' = budget - (d1 + d2)
              /\ IF r.ok
                 THEN /\ throughputs' = Append(throughputs, r.throughput)
                      /\ i' = i + 1
                      /\ UNCHANGED <<pc, ret, error>>
                 ELSE /\ Raise(r.exc)
                      /\ UNCHANGED <<throughputs, i>>
    /\ UNCHANGED <<outer, args, dirs, benchmark_dir, latencies, results,
                   file_paths, file_sizes, positions>>

ReadThroughputTeardown ==
    /\ pc = "rt_loop"
    /\ RangeDone(i, Min2(Len(file_paths), Len(file_sizes)))
    /\ \/ /\ dirs' = rmtree(dirs, benchmark_dir)
          /\ pc' = "rt_stats"
          /\ UNCHANGED <<ret, error>>
       \/ /\ Raise("OSError")
          /\ UNCHANGED dirs
    /\ UNCHANGED <<outer, readLocals, args, now, budget, io, log, benchmark_dir, i,
                   latencies, throughputs, results>>

ReadThroughputStats ==
    /\ pc = "rt_stats"
    /\ IF SummaryError(throughputs) = "none"
       THEN /\ results' = update(results,
                  [read_throughput_avg |-> mean(throughputs).v,
                   read_throughput_min |-> min(throughputs),
                   read_throughput_max |-> max(throughputs),
                   read_throughput_file_size_mb |->
                       ActualFileSizeMB(args.throughput_file_size_mb),
                   read_throughput_file_count |-> ThroughputFileCount(args.num_files)])
            /\ pc' = "r_return"
            /\ UNCHANGED <<ret, error>>
       ELSE /\ Raise(SummaryError(throughputs))
            /\ UNCHANGED results
    /\ UNCHANGED <<outer, readLocals, args, now, budget, dirs, io, log, benchmark_dir, i,
                   latencies, throughputs>>

ReadReturn ==
    /\ pc = "r_return"
    /\ ret' = "returned"
    /\ pc' = "exit"
    /\ UNCHANGED <<outer, readLocals, args, now, budget, dirs, io, log, benchmark_dir, i,
                   latencies, throughputs, results, error>>

----------------------------------------------------------------------------
(* random_seek_benchmark *)

\* the values of random.randint(a, b) the model tries: the ends of the range, the
\* value after the first and the value one block past the last; the set is empty
\* when a > b, where randint raises
RandInt(a, b) ==
    {p \in {a, a + 1, b, b + BlockSize} : a <= p /\ p <= b}

\* the lists [random.randint(a, b) for _ in range(n)] the model tries: every list
\* over choices while n is at most MaxCount, and beyond that the lists that
\* repeat one value
PositionLists(n, choices) ==
    IF n <= MaxCount
    THEN [1..n -> choices]
    ELSE {[k \in 1..n |-> c] : c \in choices}

\* if num_seeks <= 30: file_size_mb = min(file_size_mb, 30)
SeekFileSizeMBUnscaled(num_seeks, file_size_mb) == file_size_mb

SeekFileSizeMB(num_seeks, file_size_mb) ==
    IF num_seeks <= SeekQuickThreshold
    THEN Min2(file_size_mb, SeekQuickSizeMB)
    ELSE file_size_mb

\* max_pos = file_size_bytes - 4096
MaxPos(file_size_mb) == file_size_mb * MB - BlockSize

random_seek_benchmark ==
    /\ pc = "random_seek_benchmark"
    /\ args' = [args EXCEPT !.file_size_mb = SeekFileSizeMB(args.num_seeks, @)]
    /\ LET dir == ScratchName("benchmark_test", now)
       IN  \/ /\ dirs' = dirs \cup {dir}
              /\ benchmark_dir' = dir
              /\ io' = [io EXCEPT !.mkdir = @ + 1, !.made = Append(@, dir)]
              /\ log' = <<>>
              /\ pc' = "sk_create"
              /\ UNCHANGED <<ret, error>>
           \/ /\ Raise("OSError")
              /\ UNCHANGED <<dirs, benchmark_dir, io, log>>
    /\ UNCHANGED <<outer, readLocals, now, budget, i, latencies, throughputs, results>>

\* the test file is written in chunks of 1 MB, one per iteration of
\* for i in range(file_size_mb); then time.sleep(1)
SeekCreateFile ==
    /\ pc = "sk_create"
    /\ io' = [io EXCEPT !.write = @ + 1]
    /\ \/ /\ log' = log \o [k \in 1..RangeLen(args.file_size_mb) |->
                               Event("prepare", k - 1, now, now)]
          /\ now' = now + TicksPerSecond
          /\ pc' = "sk_positions"
          /\ UNCHANGED <<ret, error>>
       \/ /\ Raise("OSError")
          /\ UNCHANGED <<now, log>>
    /\ UNCHANGED <<outer, readLocals, args, budget, dirs, benchmark_dir, i,
                   latencies, throughputs, results>>

\* positions = [random.randint(0, max_pos) for _ in range(num_seeks)], then the file
\* is opened for reading and the cache is cleared once for a quick test
SeekPositions ==
    /\ pc = "sk_positions"
    /\ latencies' = <<>>
    /\ LET choices == RandInt(0, MaxPos(args.file_size_mb))
           quick == args.num_seeks <= SeekQuickThreshold
       IN  IF ~RangeDone(0, args.num_seeks) /\ choices = {}
           THEN /\ Raise("ValueError")
                /\ UNCHANGED <<positions, i, io, log, now>>
           ELSE /\ positions' \in IF RangeDone(0, args.num_seeks) THEN {<<>>}
                                  ELSE PositionLists(args.num_seeks, choices)
                /\ \/ /\ i' = 0
                      /\ io' = [io EXCEPT !.flush = @ + (IF quick THEN 1 ELSE 0)]
                      /\ log' = IF quick THEN Append(log, ClearCache(BeforeLoop, now))
                                ELSE log
                      /\ now' = now + (IF quick THEN ClearCacheTicks ELSE 0)
                      /\ pc' = "sk_loop"
                      /\ UNCHANGED <<ret, error>>
                   \/ /\ Raise("OSError")
                      /\ UNCHANGED <<i, io, log, now>>
    /\ UNCHANGED <<outer, args, budget, dirs, benchmark_dir, throughputs, results,
                   file_paths, file_sizes, last_read>>

\* for i, pos in enumerate(positions): f.seek(pos); f.read(4096)
SeekIter ==
    /\ pc = "sk_loop"
    /\ ~RangeDone(i, Len(positions))
    /\ LET flush == args.num_seeks > SeekQuickThreshold /\ i % PeriodicEvery = 0
           start_time == now + (IF flush THEN ClearCacheTicks ELSE 0)
           flushed == IF flush THEN Append(log, ClearCache(i, now)) ELSE log
       IN  /\ io' = [io EXCEPT !.flush = @ + (IF flush THEN 1 ELSE 0)]
           /\ \/ \E d \in Delays :
                    /\ now' = start_time + d
                    /\ budget' = budget - d
                    /\ latencies' = Append(latencies, Rat(Duration(start_time, now'), 1))
                    /\ log' = Append(flushed, Event("seek", i, start_time, now'))
                    /\ i' = i + 1
                    /\ UNCHANGED <<pc, ret, error>>
              \/ /\ Raise("OSError")
                 /\ now' = start_time
                 /\ log' = flushed
                 /\ UNCHANGED <<budget, latencies, i>>
    /\ UNCHANGED <<outer, readLocals, args, dirs, benchmark_dir, throughputs, results>>

SeekTeardown ==
    /\ pc = "sk_loop"
    /\ RangeDone(i, Len(positions))
    /\ \/ /\ dirs' = rmtree(dirs, benchmark_dir)
          /\ pc' = "sk_stats"
          /\ UNCHANGED <<ret, error>>
       \/ /\ Raise("OSError")
          /\ UNCHANGED dirs
    /\ UNCHANGED <<outer, readLocals, args, now, budget, io, log, benchmark_dir, i,
                   latencies, throughputs, results>>

\* return {...}
SeekStats ==
    /\ pc = "sk_stats"
    /\ IF SummaryError(latencies) = "none"
       THEN /\ results' =
                  [seek_latency_avg |-> mean(latencies).v,
                   seek_latency_min |-> min(latencies),
                   seek_latency_max |-> max(latencies),
                   seek_latency_median |-> median(latencies),
                   num_seeks |-> args.num_seeks,
                   file_size_mb |-> args.file_size_mb]
            /\ ret' = "returned"
            /\ pc' = "exit"
            /\ UNCHANGED error
       ELSE /\ Raise(SummaryError(latencies))
            /\ UNCHANGED results
    /\ UNCHANGED <<outer, readLocals, args, now, budget, dirs, io, log, benchmark_dir, i,
                   latencies, throughputs>>

----------------------------------------------------------------------------

Next ==
    \/ random_seek_benchmark
    \/ SeekCreateFile
    \/ SeekPositions
    \/ SeekIter
    \/ SeekTeardown
    \/ SeekStats
    \/ read_benchmark
    \/ ReadLatencySetup
    \/ ReadLatencyPrepare
    \/ ReadLatencyFlush
    \/ ReadLatencyIter
    \/ ReadLatencyTeardown
    \/ ReadLatencyStats
    \/ ReadThroughputSetup
    \/ ReadThroughputPrepare
    \/ ReadThroughputFlush
    \/ ReadThroughputIter
    \/ ReadThroughputTeardown
    \/ ReadThroughputStats
    \/ ReadReturn
    \/ write_benchmark
    \/ WriteLatencySetup
    \/ WriteLatencyIter
    \/ WriteLatencyTeardown
    \/ WriteLatencyStats
    \/ WriteThroughputSetup
    \/ WriteThroughputIter
    \/ WriteThroughputTeardown
    \/ WriteThroughputStats
    \/ WriteReturn

Spec == Init /\ [][Next]_vars

----------------------------------------------------------------------------
(* clear_cache, step by step; the workloads above take a call as one step that
   lasts ClearCacheTicks and raises nothing *)

\* except Exception as e: what the outer handler catches
CaughtOnlyOSError(exc) == exc = "OSError"

Caught(exc) == exc \in {"OSError", "MemoryError"}

\* where the call goes on after NtSetSystemInformation has returned ("done") or has
\* "raised": the inner handler is `except Exception: pass`
AfterPrivilegedFlushUncaught(outcome) ==
    IF outcome = "raised" THEN "cc_warn" ELSE "cc_random"

AfterPrivilegedFlush(outcome) == "cc_random"

\* the steps of Method 1, in order
Fallback == <<"urandom", "NamedTemporaryFile", "write", "fsync", "read", "unlink">>

\* a step of the try block, at position here: it is done and the call goes on at
\* next, or it raises one of excs, which the outer handler catches or lets through
CacheStep(here, op, at, next, excs) ==
    /\ pc = here
    /\ \/ /\ log' = Append(log, Event(op, at, now, now))
          /\ pc' = next
          /\ UNCHANGED <<ret, error>>
       \/ \E exc \in excs :
             /\ log' = Append(log, Event("raised", at, now, now))
             /\ IF Caught(exc)
                THEN /\ pc' = "cc_warn"
                     /\ error' = exc
                     /\ UNCHANGED ret
                ELSE Raise(exc)
    /\ UNCHANGED <<outer, readLocals, args, now, budget, dirs, io, benchmark_dir,
                   latencies, throughputs, results>>

\* if HAS_WIN32: try: NtSetSystemInformation(...) except Exception: pass
clear_cache ==
    /\ pc = "clear_cache"
    /\ io' = [io EXCEPT !.flush = @ + 1]
    /\ IF HAS_WIN32
       THEN \E outcome \in {"done", "raised"} :
               /\ log' = Append(log, Event(IF outcome = "done"
                                           THEN "NtSetSystemInformation"
                                           ELSE "NtSetSystemInformation raised",
                                           BeforeLoop, now, now))
               /\ pc' = AfterPrivilegedFlush(outcome)
               /\ error' = IF pc' = "cc_warn" THEN "OSError" ELSE error
       ELSE /\ pc' = "cc_random"
            /\ UNCHANGED <<log, error>>
    /\ UNCHANGED <<outer, readLocals, args, now, budget, dirs, benchmark_dir, i,
                   latencies, throughputs, results, ret>>

\* temp_data = os.urandom(temp_size_mb * 1024 * 1024)
ClearCacheRandomData ==
    /\ CacheStep("cc_random", "urandom", BeforeLoop, "cc_tempfile", {"MemoryError"})
    /\ UNCHANGED i

\* with tempfile.NamedTemporaryFile(delete=False) as temp_file
ClearCacheTempFile ==
    /\ CacheStep("cc_tempfile", "NamedTemporaryFile", BeforeLoop, "cc_write", {"OSError"})
    /\ UNCHANGED i

\* temp_file.write(temp_data); temp_file.flush()
ClearCacheWrite ==
    /\ CacheStep("cc_write", "write", BeforeLoop, "cc_fsync", {"OSError"})
    /\ UNCHANGED i

\* os.fsync(temp_file.fileno())
ClearCacheSync ==
    /\ CacheStep("cc_fsync", "fsync", BeforeLoop, "cc_read", {"OSError"})
    /\ UNCHANGED i

\* with open(temp_file_path, 'rb') as temp_file: _ = temp_file.read()
ClearCacheReadBack ==
    /\ CacheStep("cc_read", "read", BeforeLoop, "cc_unlink", {"OSError", "MemoryError"})
    /\ UNCHANGED i

\* os.unlink(temp_file_path)
ClearCacheUnlink ==
    /\ CacheStep("cc_unlink", "unlink", BeforeLoop, "cc_array", {"OSError"})
    /\ UNCHANGED i

\* large_array = bytearray(100 * 1024 * 1024)
ClearCacheArray ==
    /\ CacheStep("cc_array", "bytearray", BeforeLoop, "cc_fill", {"MemoryError"})
    /\ i' = 0

\* for i in range(0, len(large_array), 10 * 1024 * 1024):
\*     large_array[i:end] = os.urandom(end - i)
ClearCacheFill ==
    /\ ~RangeDone(i * ChunkMB, ArrayMB)
    /\ CacheStep("cc_fill", "fill", i, "cc_fill", {"MemoryError"})
    /\ i' = IF pc' = "cc_fill" THEN i + 1 ELSE i

\* del large_array
ClearCacheRelease ==
    /\ pc = "cc_fill"
    /\ RangeDone(i * ChunkMB, ArrayMB)
    /\ pc' = "cc_pause"
    /\ UNCHANGED <<outer, readLocals, args, now, budget, dirs, io, log, benchmark_dir, i,
                   latencies, throughputs, results, ret, error>>

\* print(f"Warning: Cache clearing may not be fully effective: {e}")
ClearCacheWarn ==
    /\ pc = "cc_warn"
    /\ log' = Append(log, Event("warning", BeforeLoop, now, now))
    /\ pc' = "cc_pause"
    /\ UNCHANGED <<outer, readLocals, args, now, budget, dirs, io, benchmark_dir, i,
                   latencies, throughputs, results, ret, error>>

\* gc.collect(); time.sleep(0.25); and the call returns
ClearCachePause ==
    /\ pc = "cc_pause"
    /\ log' = Append(log, Event("sleep", BeforeLoop, now, now + ClearCacheTicks))
    /\ now' = now + ClearCacheTicks
    /\ ret' = "returned"
    /\ pc' = "exit"
    /\ UNCHANGED <<outer, readLocals, args, budget, dirs, io, benchmark_dir, i,
                   latencies, throughputs, results, error>>

InitClearCache ==
    /\ entry = "clear_cache"
    /\ HAS_WIN32 \in BOOLEAN
    /\ args = NoArgs
    /\ session = NoSession
    /\ budget = 0
    /\ call = NoCall
    /\ Start

NextClearCache ==
    \/ clear_cache
    \/ ClearCacheRandomData
    \/ ClearCacheTempFile
    \/ ClearCacheWrite
    \/ ClearCacheSync
    \/ ClearCacheReadBack
    \/ ClearCacheUnlink
    \/ ClearCacheArray
    \/ ClearCacheFill
    \/ ClearCacheRelease
    \/ ClearCacheWarn
    \/ ClearCachePause

SpecClearCache == InitClearCache /\ [][NextClearCache]_vars

----------------------------------------------------------------------------
(* db.py: the persistence layer *)

\* the keys of the result dictionaries, as the words that "_" separates
KeyWords ==
    [write_latency_avg |-> <<"write", "latency", "avg">>,
     write_latency_min |-> <<"write", "latency", "min">>,
     write_latency_max |-> <<"write", "latency", "max">>,
     write_latency_median |-> <<"write", "latency", "median">>,
     write_latency_file_size_kb |-> <<"write", "latency", "file", "size", "kb">>,
     write_latency_file_count |-> <<"write", "latency", "file", "count">>,
     write_throughput_avg |-> <<"write", "throughput", "avg">>,
     write_throughput_min |-> <<"write", "throughput", "min">>,
     write_throughput_max |-> <<"write", "throughput", "max">>,
     write_throughput_file_size_mb |-> <<"write", "throughput", "file", "size", "mb">>,
     write_throughput_file_count |-> <<"write", "throughput", "file", "count">>,
     read_latency_avg |-> <<"read", "latency", "avg">>,
     read_latency_min |-> <<"read", "latency", "min">>,
     read_latency_max |-> <<"read", "latency", "max">>,
     read_latency_median |-> <<"read", "latency", "median">>,
     read_latency_file_size_kb |-> <<"read", "latency", "file", "size", "kb">>,
     read_latency_file_count |-> <<"read", "latency", "file", "count">>,
     read_throughput_avg |-> <<"read", "throughput", "avg">>,
     read_throughput_min |-> <<"read", "throughput", "min">>,
     read_throughput_max |-> <<"read", "throughput", "max">>,
     read_throughput_file_size_mb |-> <<"read", "throughput", "file", "size", "mb">>,
     read_throughput_file_count |-> <<"read", "throughput", "file", "count">>,
     seek_latency_avg |-> <<"seek", "latency", "avg">>,
     seek_latency_min |-> <<"seek", "latency", "min">>,
     seek_latency_max |-> <<"seek", "latency", "max">>,
     seek_latency_median |-> <<"seek", "latency", "median">>,
     num_seeks |-> <<"num", "seeks">>,
     file_size_mb |-> <<"file", "size", "mb">>]

\* word in key
In(word, key) == word \in Range(KeyWords[key])

\* key.endswith(suffix)
endswith(key, suffix) == Last(KeyWords[key]) = suffix

\* d.get(key, default)
get(d, key, default) == IF key \in DOMAIN d THEN d[key] ELSE default

\* value * 1000
ToMillisecondsUnconverted(value) == value

ToMilliseconds(value) == Rat(value[1] * 1000, value[2])

\* the unit under which save_benchmark_results stores the value of a key of a
\* category, or "skip" where it goes on to the next key
UnitOf(category, key) ==
    IF In("latency", key)
    THEN IF \/ endswith(key, "avg") \/ endswith(key, "min")
            \/ endswith(key, "max") \/ endswith(key, "median")
         THEN "ms"
         ELSE "skip"
    ELSE IF category = "seek" THEN "skip"
    ELSE IF In("throughput", key)
    THEN IF endswith(key, "avg") \/ endswith(key, "min") \/ endswith(key, "max")
         THEN "MB/s"
         ELSE "skip"
    ELSE ""

\* the rows that one of the three loops of save_benchmark_results inserts
ResultRows(session_id, category, bundle) ==
    {[session_id |-> session_id,
      category |-> category,
      metric |-> key,
      value |-> IF UnitOf(category, key) = "ms"
                THEN ToMilliseconds(bundle[key])
                ELSE bundle[key],
      unit |-> UnitOf(category, key)] :
        key \in {k \in DOMAIN bundle : UnitOf(category, k) # "skip"}}

\* lists of samples, from which the bundles given to the persistence layer are made
SampleLists ==
    {<<Rat(1, 1)>>, <<Rat(1, 4), Rat(3, 4)>>, <<Rat(2, 1), Rat(0, 1), Rat(1, 1)>>}

\* a result of write_benchmark (w = "write") or read_benchmark (w = "read")
WriteReadBundle(w, test_latency, test_throughput, S) ==
    LET latency ==
            IF w = "write"
            THEN [write_latency_avg |-> mean(S).v,
                  write_latency_min |-> min(S),
                  write_latency_max |-> max(S),
                  write_latency_median |-> median(S),
                  write_latency_file_size_kb |-> 4,
                  write_latency_file_count |-> Len(S)]
            ELSE [read_latency_avg |-> mean(S).v,
                  read_latency_min |-> min(S),
                  read_latency_max |-> max(S),
                  read_latency_median |-> median(S),
                  read_latency_file_size_kb |-> 4,
                  read_latency_file_count |-> Len(S)]
        throughput ==
            IF w = "write"
            THEN [write_throughput_avg |-> mean(S).v,
                  write_throughput_min |-> min(S),
                  write_throughput_max |-> max(S),
                  write_throughput_file_size_mb |-> 1,
                  write_throughput_file_count |-> Len(S)]
            ELSE [read_throughput_avg |-> mean(S).v,
                  read_throughput_min |-> min(S),
                  read_throughput_max |-> max(S),
                  read_throughput_file_size_mb |-> 2,
                  read_throughput_file_count |-> Len(S)]
    IN  (IF test_latency THEN latency ELSE EmptyDict)
            @@ (IF test_throughput THEN throughput ELSE EmptyDict)

\* a result of random_seek_benchmark
SeekBundle(S) ==
    [seek_latency_avg |-> mean(S).v,
     seek_latency_min |-> min(S),
     seek_latency_max |-> max(S),
     seek_latency_median |-> median(S),
     num_seeks |-> Len(S),
     file_size_mb |-> 2]

DeviceIds == {"USB\\1", "USB\\2"}

TestParams ==
    {EmptyDict,
     [write_latency_file_count |-> 1, write_throughput_file_size_mb |-> 1,
      read_latency_file_count |-> 1, read_throughput_file_size_mb |-> 1,
      seek_count |-> 1]}

save_benchmark_results ==
    /\ pc = "database"
    /\ Len(db.benchmark_sessions) < MaxSessions
    /\ \E device_id \in DeviceIds, test_params \in TestParams, S \in SampleLists,
          wl \in BOOLEAN, wt \in BOOLEAN, rl \in BOOLEAN, rt \in BOOLEAN :
          LET write_results == WriteReadBundle("write", wl, wt, S)
              read_results == WriteReadBundle("read", rl, rt, S)
              seek_results == SeekBundle(S)
              session_id == Len(db.benchmark_sessions) + 1
              row == [id |-> session_id,
                      device_id |-> device_id,
                      timestamp |-> now,
                      test_type |-> "custom",
                      write_latency_files |->
                          get(test_params, "write_latency_file_count", 0),
                      write_throughput_size_mb |->
                          get(test_params, "write_throughput_file_size_mb", 0),
                      read_latency_files |->
                          get(test_params, "read_latency_file_count", 0),
                      read_throughput_size_mb |->
                          get(test_params, "read_throughput_file_size_mb", 0),
                      seek_count |-> get(test_params, "seek_count", 0)]
          IN  db' = [db EXCEPT
                  !.benchmark_sessions = Append(@, row),
                  !.benchmark_results =
                      @ \cup ResultRows(session_id, "write", write_results)
                        \cup ResultRows(session_id, "read", read_results)
                        \cup ResultRows(session_id, "seek", seek_results),
                  !.saved = Append(@, [session_id |-> session_id,
                                       write |-> write_results,
                                       read |-> read_results,
                                       seek |-> seek_results])]
    /\ UNCHANGED <<HAS_WIN32, entry, session, call, readLocals, args, pc, now, budget, dirs,
                   io, log, benchmark_dir, i, latencies, throughputs, results, ret,
                   error>>

InitResults ==
    /\ entry = "database"
    /\ HAS_WIN32 = FALSE
    /\ args = NoArgs
    /\ session = NoSession
    /\ budget = 0
    /\ call = NoCall
    /\ Start

NextResults == save_benchmark_results

SpecResults == InitResults /\ [][NextResults]_vars

----------------------------------------------------------------------------
(* db.py: save_device_info, the devices table of init_database *)

\* datetime.now().isoformat(): the text of a local time, seconds first and the
\* microseconds after them, left out when they are zero
isoformat(t) ==
    IF t % TicksPerSecond = 0
    THEN <<t \div TicksPerSecond>>
    ELSE <<t \div TicksPerSecond, (t % TicksPerSecond) * (1000000 \div TicksPerSecond)>>

\* the order of two such texts, as TEXT columns compare
TextBefore(a, b) ==
    \/ a[1] < b[1]
    \/ /\ a[1] = b[1]
       /\ \/ Len(a) < Len(b)
          \/ Len(a) = 2 /\ Len(b) = 2 /\ a[2] < b[2]

\* where and how a drive is mounted when it is seen
Mounts ==
    {[DriveLetter |-> "E:", VolumeName |-> "DATA", SizeGB |-> 8],
     [DriveLetter |-> "F:", SizeGB |-> 16]}

\* what the drive says about its hardware, when it says anything
Hardware ==
    {EmptyDict,
     [Model |-> "Cruzer", Vendor |-> "SanDisk", SerialNumber |-> "4C53",
      Signature |-> "1", PNPDeviceID |-> "USBSTOR\\A", FirmwareRevision |-> "1.00",
      InterfaceType |-> "USB", MediaType |-> "Removable Media"],
     [Model |-> "DataTraveler", Vendor |-> "Kingston", SerialNumber |-> "60A4"]}

DeviceInfos ==
    {[device_id |-> d] @@ m @@ h : d \in DeviceIds, m \in Mounts, h \in Hardware}

\* the next rowid of an INTEGER PRIMARY KEY column
NextRowId(rows) ==
    IF rows = {} THEN 1
    ELSE (CHOOSE n \in {r.id : r \in rows} : \A r \in rows : r.id <= n) + 1

\* INSERT INTO devices (...) VALUES (...)
InsertedRow(id, device_info, timestamp) ==
    [id |-> id,
     device_id |-> device_info["device_id"],
     drive_letter |-> device_info["DriveLetter"],
     volume_name |-> get(device_info, "VolumeName", "No Label"),
     size_gb |-> device_info["SizeGB"],
     model |-> get(device_info, "Model", "Unknown Model"),
     vendor |-> get(device_info, "Vendor", "Unknown Vendor"),
     serial_number |-> get(device_info, "SerialNumber", ""),
     signature |-> get(device_info, "Signature", ""),
     pnp_device_id |-> get(device_info, "PNPDeviceID", ""),
     firmware_revision |-> get(device_info, "FirmwareRevision", ""),
     interface_type |-> get(device_info, "InterfaceType", ""),
     media_type |-> get(device_info, "MediaType", ""),
     first_seen |-> timestamp,
     last_seen |-> timestamp]

UpdatedRowReplaced(row, device_info, timestamp) ==
    InsertedRow(row.id, device_info, timestamp)

\* UPDATE devices SET drive_letter = ?, volume_name = ?, size_gb = ?, last_seen = ?
UpdatedRow(row, device_info, timestamp) ==
    [row EXCEPT !.drive_letter = device_info["DriveLetter"],
                !.volume_name = get(device_info, "VolumeName", "No Label"),
                !.size_gb = device_info["SizeGB"],
                !.last_seen = timestamp]

\* one call of save_device_info, some time after the one before it; a call in
\* which sqlite3 raises commits nothing
save_device_info ==
    /\ pc = "save_device_info"
    /\ call.saves < MaxSaves
    /\ \E device_info \in DeviceInfos, d \in Delays, outcome \in {"done", "raised"} :
          LET device_id == device_info["device_id"]
              timestamp == isoformat(now + d)
              result == {r \in db.devices : r.device_id = device_id}
          IN  /\ now' = now + d
              /\ budget' = budget - d
              /\ call' = [saves |-> call.saves + 1, device_info |-> device_info,
                          timestamp |-> timestamp, outcome |-> outcome]
              /\ IF outcome = "raised"
                 THEN /\ ret' = "raised"
                      /\ error' = "sqlite3.Error"
                      /\ UNCHANGED <<db, log>>
                 ELSE /\ ret' = "returned"
                      /\ error' = "none"
                      /\ IF result # {}
                         THEN /\ db' = [db EXCEPT !.devices =
                                     {IF r \in result
                                      THEN UpdatedRow(r, device_info, timestamp)
                                      ELSE r : r \in @}]
                              /\ UNCHANGED log
                         ELSE /\ db' = [db EXCEPT !.devices =
                                     @ \cup {InsertedRow(NextRowId(@), device_info,
                                                         timestamp)}]
                              /\ log' = Append(log,
                                     Event("INSERT",
                                           InsertedRow(NextRowId(db.devices),
                                                       device_info, timestamp),
                                           now', now'))
    /\ UNCHANGED <<HAS_WIN32, entry, session, readLocals, args, pc, dirs, io,
                   benchmark_dir, i, latencies, throughputs, results>>

InitDevices ==
    /\ entry = "save_device_info"
    /\ HAS_WIN32 = FALSE
    /\ args = NoArgs
    /\ session = NoSession
    /\ budget = MaxDelay
    /\ call = [saves |-> 0]
    /\ Start

NextDevices == save_device_info

SpecDevices == InitDevices /\ [][NextDevices]_vars

----------------------------------------------------------------------------
(* report.py: what convert_benchmarks_to_device_data makes of the three results *)

None == <<>>

\* d[key] * 1000 if key in d else None
MsOrNoneIfZero(d, key) ==
    IF key \in DOMAIN d /\ d[key][1] # 0 THEN ToMilliseconds(d[key]) ELSE None

MsOrNone(d, key) == IF key \in DOMAIN d THEN ToMilliseconds(d[key]) ELSE None

\* d[key] if key in d else None
ValueOrNone(d, key) == IF key \in DOMAIN d THEN d[key] ELSE None

\* the 'latency' and 'throughput' entries of device_data
convert_benchmarks_to_device_data(write_results, read_results, seek_results) ==
    [latency |->
        [read_ms |-> MsOrNone(read_results, "read_latency_avg"),
         write_ms |-> MsOrNone(write_results, "write_latency_avg"),
         random_read_ms |-> ToMilliseconds(seek_results["seek_latency_avg"])],
     throughput |->
        [read_mbps |-> ValueOrNone(read_results, "read_throughput_avg"),
         write_mbps |-> ValueOrNone(write_results, "write_throughput_avg")]]

----------------------------------------------------------------------------
(* main: the benchmark session, from the choice of the test parameters on *)

\* a local variable of main that has not been assigned
Unset == [set |-> FALSE, value |-> EmptyDict]

Assigned(value) == [set |-> TRUE, value |-> value]

\* test_choice "4": the answers typed in, each an integer that int() accepts
SessionCounts == 1..SessionCount

SessionSizes == 1..SessionCount

\* the workloads are defined with num_files = 10, which main leaves at its default
WriteReadCall ==
    [test_latency |-> session.latency_test,
     test_throughput |-> session.throughput_test,
     latency_file_count |-> session.latency_file_count,
     num_files |-> DefaultNumFiles,
     throughput_file_size_mb |-> session.throughput_file_size_mb,
     num_seeks |-> 0, file_size_mb |-> 0]

\* file_size_mb=min(throughput_file_size_mb * 2, 100)
SeekCallSizeMB(throughput_file_size_mb) == Min2(throughput_file_size_mb * 2, SeekSizeCapMB)

SeekCall ==
    [test_latency |-> FALSE, test_throughput |-> FALSE,
     latency_file_count |-> 0, num_files |-> 0, throughput_file_size_mb |-> 0,
     num_seeks |-> session.seek_count,
     file_size_mb |-> SeekCallSizeMB(session.throughput_file_size_mb)]

\* main calls a workload function: the call is recorded and the callee starts
Call(function, arguments) ==
    /\ args' = arguments
    /\ pc' = function
    /\ ret' = "none"
    /\ error' = "none"

\* the test parameters are chosen
main ==
    /\ pc = "main"
    /\ \E latency_test \in BOOLEAN, throughput_test \in BOOLEAN,
          latency_file_count \in SessionCounts,
          throughput_file_size_mb \in SessionSizes,
          seek_count \in SessionCounts :
          session' = [phase |-> "try",
                      latency_test |-> latency_test,
                      throughput_test |-> throughput_test,
                      latency_file_count |-> latency_file_count,
                      throughput_file_size_mb |-> throughput_file_size_mb,
                      seek_count |-> seek_count,
                      write_results |-> Unset,
                      read_results |-> Unset,
                      seek_results |-> Unset,
                      started |-> <<>>,
                      completed |-> <<>>,
                      printed |-> <<>>,
                      displayed |-> <<>>]
    /\ pc' = "main_try"
    /\ UNCHANGED <<HAS_WIN32, entry, db, call, readLocals, args, now, budget, dirs, io, log,
                   benchmark_dir, i, latencies, throughputs, results, ret, error>>

\* try: clear_cache(); write_results = write_benchmark(...)
MainWrite ==
    /\ pc = "main_try"
    /\ io' = [io EXCEPT !.flush = @ + 1]
    /\ log' = <<ClearCache(BeforeLoop, now)>>
    /\ now' = now + ClearCacheTicks
    /\ session' = [session EXCEPT !.phase = "write_benchmark",
                                  !.started = Append(@, "write_benchmark")]
    /\ Call("write_benchmark", WriteReadCall)
    /\ UNCHANGED <<HAS_WIN32, entry, db, call, readLocals, budget, dirs, benchmark_dir, i,
                   latencies, throughputs, results>>

\* write_benchmark has returned: read_results = read_benchmark(...)
MainRead ==
    /\ pc = "exit"
    /\ session.phase = "write_benchmark"
    /\ ret = "returned"
    /\ session' = [session EXCEPT !.phase = "read_benchmark",
                                  !.write_results = Assigned(results),
                                  !.completed = Append(@, "write_benchmark"),
                                  !.started = Append(@, "read_benchmark")]
    /\ Call("read_benchmark", WriteReadCall)
    /\ UNCHANGED <<HAS_WIN32, entry, db, call, readLocals, now, budget, dirs, io, log,
                   benchmark_dir, i, latencies, throughputs, results>>

\* read_benchmark has returned: seek_results = random_seek_benchmark(...)
MainSeek ==
    /\ pc = "exit"
    /\ session.phase = "read_benchmark"
    /\ ret = "returned"
    /\ session' = [session EXCEPT !.phase = "random_seek_benchmark",
                                  !.read_results = Assigned(results),
                                  !.completed = Append(@, "read_benchmark"),
                                  !.started = Append(@, "random_seek_benchmark")]
    /\ Call("random_seek_benchmark", SeekCall)
    /\ UNCHANGED <<HAS_WIN32, entry, db, call, readLocals, now, budget, dirs, io, log,
                   benchmark_dir, i, latencies, throughputs, results>>

\* random_seek_benchmark has returned: display_results(...), and main returns; its
\* local variables are gone
MainDisplay ==
    /\ pc = "exit"
    /\ session.phase = "random_seek_benchmark"
    /\ ret = "returned"
    /\ session' = [session EXCEPT !.phase = "done",
                                  !.write_results = Unset,
                                  !.read_results = Unset,
                                  !.seek_results = Unset,
                                  !.completed = Append(@, "random_seek_benchmark"),
                                  !.displayed = <<session.write_results.value,
                                                  session.read_results.value,
                                                  results>>]
    /\ pc' = "done"
    /\ UNCHANGED <<HAS_WIN32, entry, db, call, readLocals, args, now, budget, dirs, io, log,
                   benchmark_dir, i, latencies, throughputs, results, ret, error>>

\* print(f"Error during benchmark: {e}")
ErrorReport(e) == [text |-> "Error during benchmark", e |-> e]

\* except Exception as e: the error is printed, and main returns; its local
\* variables are gone
MainExcept ==
    /\ pc = "exit"
    /\ session.phase \in {"write_benchmark", "read_benchmark", "random_seek_benchmark"}
    /\ ret = "raised"
    /\ session' = [session EXCEPT !.phase = "failed",
                                  !.write_results = Unset,
                                  !.read_results = Unset,
                                  !.seek_results = Unset,
                                  !.printed = Append(@, ErrorReport(error))]
    /\ pc' = "done"
    /\ UNCHANGED <<HAS_WIN32, entry, db, call, readLocals, args, now, budget, dirs, io, log,
                   benchmark_dir, i, latencies, throughputs, results, ret, error>>

InitSession ==
    /\ entry = "main"
    /\ HAS_WIN32 = FALSE
    /\ args = NoArgs
    /\ session = NoSession
    /\ budget = SessionDelay
    /\ call = NoCall
    /\ Start

NextSession ==
    \/ main
    \/ MainWrite
    \/ MainRead
    \/ MainSeek
    \/ MainDisplay
    \/ MainExcept
    \/ Next

SpecSession == InitSession /\ [][NextSession]_vars

----------------------------------------------------------------------------
(* the call random_seek_benchmark(drive_path, num_seeks=seek_count,
   file_size_mb=min(throughput_file_size_mb * 2, 100)) that main makes, for
   throughput sizes and seek counts on both sides of the two limits *)

SeekSizeCases ==
    {1, SeekQuickSizeMB \div 2, SeekQuickSizeMB \div 2 + 1,
     SeekSizeCapMB \div 2, SeekSizeCapMB \div 2 + 1}

SeekCountCases == {1, SeekQuickThreshold, SeekQuickThreshold + 1}

InitSeekSize ==
    /\ entry = "random_seek_benchmark"
    /\ HAS_WIN32 = FALSE
    /\ \E s \in SeekSizeCases, n \in SeekCountCases :
          /\ session = [phase |-> "none", throughput_file_size_mb |-> s,
                        seek_count |-> n]
          /\ args = SeekCall
    /\ budget = 0
    /\ call = NoCall
    /\ Start

NextSeek ==
    \/ random_seek_benchmark
    \/ SeekCreateFile
    \/ SeekPositions
    \/ SeekIter
    \/ SeekTeardown
    \/ SeekStats

SpecSeekSize == InitSeekSize /\ [][NextSeek]_vars

----------------------------------------------------------------------------
(* The latency parts of write_benchmark and read_benchmark, called with file
   counts on both sides of the quick-test threshold *)

CadenceCounts ==
    {1, QuickThreshold, QuickThreshold + 1, QuickThreshold + PeriodicEvery + 1}

InitCadence ==
    /\ entry \in {"write_benchmark", "read_benchmark"}
    /\ HAS_WIN32 = FALSE
    /\ args \in [test_latency : {TRUE}, test_throughput : {FALSE},
                 latency_file_count : CadenceCounts, num_files : {1},
                 throughput_file_size_mb : {1},
                 num_seeks : {0}, file_size_mb : {0}]
    /\ session = NoSession
    /\ budget = CadenceDelay
    /\ call = NoCall
    /\ Start

NextLatency ==
    \/ write_benchmark
    \/ WriteLatencySetup
    \/ WriteLatencyIter
    \/ WriteLatencyTeardown
    \/ WriteLatencyStats
    \/ WriteReturn
    \/ read_benchmark
    \/ ReadLatencySetup
    \/ ReadLatencyPrepare
    \/ ReadLatencyFlush
    \/ ReadLatencyIter
    \/ ReadLatencyTeardown
    \/ ReadLatencyStats
    \/ ReadReturn

SpecCadence == InitCadence /\ [][NextLatency]_vars

----------------------------------------------------------------------------
(* Properties *)

Zero == <<0, 1>>

\* the workload call has ended, by return or by an exception
Ended == pc = "exit"

\* the points where a summary dictionary is built, and the samples it is built from
StatsPoints == {"wl_stats", "wt_stats", "rl_stats", "rt_stats", "sk_stats"}

Summarized == IF pc \in {"wt_stats", "rt_stats"} THEN throughputs ELSE latencies

\* the timed loops of the three latency workloads
LatencyLoops == {"wl_loop", "rl_loop", "sk_loop"}

Has(key) == key \in DOMAIN results

\* a count or size of the request is not positive
NonPositiveRequest ==
    IF entry = "random_seek_benchmark"
    THEN args.num_seeks <= 0
    ELSE \/ args.latency_file_count <= 0
         \/ args.throughput_file_size_mb <= 0
         \/ args.num_files <= 0

\* every count and size of the request is positive
ValidRequest ==
    IF entry = "random_seek_benchmark"
    THEN args.num_seeks >= 1 /\ args.file_size_mb >= 1
    ELSE /\ args.latency_file_count >= 1
         /\ args.throughput_file_size_mb >= 1
         /\ args.num_files >= 1

\* C1: once a workload function has returned or raised, the scratch directory it
\* created no longer exists (stated for the requests whose counts and sizes are all
\* positive).
C1_ScratchRemovedOnEveryExit == (ValidRequest /\ Ended) => benchmark_dir \notin dirs

\* C2: a request with a non-positive count or size is rejected before any I/O: no
\* scratch directory is made, no file is written, the cache is not flushed, and the
\* call does not return a result.
C2_NonPositiveRejectedBeforeIO ==
    NonPositiveRequest =>
        /\ io = [mkdir |-> 0, write |-> 0, flush |-> 0, made |-> <<>>]
        /\ dirs = {}
        /\ ret # "returned"

\* C3, in every state: inside a timed latency loop there is one sample per finished
\* iteration, no sample is negative, and a latency summary that was produced comes
\* from exactly count samples and echoes count.
C3_State ==
    /\ pc \in LatencyLoops => Len(latencies) = i
    /\ \A k \in 1..Len(latencies) : RLe(Zero, latencies[k])
    /\ (Has("write_latency_avg") /\ args.latency_file_count >= 1) =>
           /\ Len(latencies) = args.latency_file_count
           /\ results.write_latency_file_count = args.latency_file_count
    /\ (Has("read_latency_avg") /\ args.latency_file_count >= 1) =>
           /\ Len(latencies) = args.latency_file_count
           /\ results.read_latency_file_count = args.latency_file_count
    /\ (Has("seek_latency_avg") /\ args.num_seeks >= 1) =>
           /\ Len(latencies) = args.num_seeks
           /\ results.num_seeks = args.num_seeks

\* C3, in every step of a timed latency loop: the samples recorded so far are kept
\* and one sample is appended at the end.
C3_Step ==
    (pc \in LatencyLoops /\ pc' = pc) =>
        /\ i' = i + 1
        /\ Len(latencies') = Len(latencies) + 1
        /\ SubSeq(latencies', 1, Len(latencies)) = latencies

\* C3: for every count >= 1 a latency workload that completes records exactly count
\* samples, one per iteration and appended in iteration order, each >= 0, and echoes
\* the count in its result.
C3_ExactlyCountSamples == []C3_State /\ [][C3_Step]_vars

C3_Witness ==
    /\ Has("read_latency_avg")
    /\ args.latency_file_count = MaxCount
    /\ Len(latencies) = MaxCount
    /\ \E k \in 1..Len(latencies) : RLt(Zero, latencies[k])

\* C4: when the direct path of read_with_no_buffering fails (PyWin32 missing, the
\* open fails, ReadFile returns an error), the call returns a (duration, throughput)
\* pair and raises nothing (stated for the requests whose counts and sizes are all
\* positive, and for the calls whose buffered read of the file does not itself fail).
C4_FallbackReturnsPair ==
    (/\ ValidRequest
     /\ last_read.direct \in {"unavailable", "open_failed", "read_error"}
     /\ last_read.exc # "OSError") => last_read.ok

\* C5: no throughput computation divides by zero: no ZeroDivisionError leaves a
\* workload, and every (duration, throughput) pair that a read reports has
\* duration > 0 (stated for the requests whose counts and sizes are all positive).
C5_NoDivisionByZero ==
    ValidRequest =>
        /\ error # "ZeroDivisionError"
        /\ (last_read.direct # "none" /\ last_read.ok) => last_read.duration > 0

\* C6: every seek offset p generated by the random-seek workload satisfies
\* 0 <= p <= fileSize - blockSize and p mod 4096 = 0.
C6_SeekOffsetsInFileAndAligned ==
    \A k \in 1..Len(positions) :
        /\ 0 <= positions[k]
        /\ positions[k] <= args.file_size_mb * MB - BlockSize
        /\ positions[k] % BlockSize = 0

Between(lo, x, hi) == RLe(lo, x) /\ RLe(x, hi)

\* C7: the statistics reported for a sample sequence satisfy min <= median <= max
\* and min <= avg <= max.
C7_SummaryOrdered ==
    /\ Has("write_latency_avg") =>
           /\ Between(results.write_latency_min, results.write_latency_avg,
                      results.write_latency_max)
           /\ Between(results.write_latency_min, results.write_latency_median,
                      results.write_latency_max)
    /\ Has("read_latency_avg") =>
           /\ Between(results.read_latency_min, results.read_latency_avg,
                      results.read_latency_max)
           /\ Between(results.read_latency_min, results.read_latency_median,
                      results.read_latency_max)
    /\ Has("seek_latency_avg") =>
           /\ Between(results.seek_latency_min, results.seek_latency_avg,
                      results.seek_latency_max)
           /\ Between(results.seek_latency_min, results.seek_latency_median,
                      results.seek_latency_max)
    /\ Has("write_throughput_avg") =>
           Between(results.write_throughput_min, results.write_throughput_avg,
                   results.write_throughput_max)
    /\ Has("read_throughput_avg") =>
           Between(results.read_throughput_min, results.read_throughput_avg,
                   results.read_throughput_max)

C7_Witness ==
    /\ Has("seek_latency_avg")
    /\ RLt(results.seek_latency_min, results.seek_latency_avg)
    /\ RLt(results.seek_latency_avg, results.seek_latency_max)
    /\ results.seek_latency_median # results.seek_latency_avg

\* C8: summarizing an empty sample sequence raises StatisticsError and adds no
\* summary statistics to the result.
C8_EmptySummaryRaises ==
    [][(pc \in StatsPoints /\ Summarized = <<>>) =>
          /\ ret' = "raised"
          /\ error' = "StatisticsError"
          /\ results' = results]_vars

C8_Witness ==
    /\ Ended
    /\ error = "StatisticsError"
    /\ latencies = <<>>
    /\ args.latency_file_count = 0

\* C9: at every point where mean/min/max/median are computed the sample list is
\* not empty, whatever parameters the workload was called with.
C9_SamplesBeforeSummary == pc \in StatsPoints => Summarized # <<>>

\* C10: a summary of a single sample x reports avg = min = max = median = x.
C10_SingleSample ==
    /\ (Has("write_latency_avg") /\ Len(latencies) = 1) =>
           /\ results.write_latency_avg = latencies[1]
           /\ results.write_latency_min = latencies[1]
           /\ results.write_latency_max = latencies[1]
           /\ results.write_latency_median = latencies[1]
    /\ (Has("read_latency_avg") /\ Len(latencies) = 1) =>
           /\ results.read_latency_avg = latencies[1]
           /\ results.read_latency_min = latencies[1]
           /\ results.read_latency_max = latencies[1]
           /\ results.read_latency_median = latencies[1]
    /\ (Has("seek_latency_avg") /\ Len(latencies) = 1) =>
           /\ results.seek_latency_avg = latencies[1]
           /\ results.seek_latency_min = latencies[1]
           /\ results.seek_latency_max = latencies[1]
           /\ results.seek_latency_median = latencies[1]
    /\ (Has("write_throughput_avg") /\ Len(throughputs) = 1) =>
           /\ results.write_throughput_avg = throughputs[1]
           /\ results.write_throughput_min = throughputs[1]
           /\ results.write_throughput_max = throughputs[1]
    /\ (Has("read_throughput_avg") /\ Len(throughputs) = 1) =>
           /\ results.read_throughput_avg = throughputs[1]
           /\ results.read_throughput_min = throughputs[1]
           /\ results.read_throughput_max = throughputs[1]

C10_Witness ==
    /\ Has("write_latency_avg")
    /\ Len(latencies) = 1
    /\ RLt(Zero, latencies[1])

\* the k-th smallest sample of S (k in 1..Len(S)), found by counting, not by sorting
OrderStatistic(S, k) ==
    CHOOSE x \in Range(S) :
        /\ Cardinality({j \in 1..Len(S) : RLt(S[j], x)}) < k
        /\ k <= Cardinality({j \in 1..Len(S) : RLe(S[j], x)})

\* the even/odd rule over the order statistics of S
MedianRule(S) ==
    LET n == Len(S)
    IN  IF n % 2 = 1
        THEN OrderStatistic(S, (n + 1) \div 2)
        ELSE RDivInt(RAdd(OrderStatistic(S, n \div 2),
                          OrderStatistic(S, n \div 2 + 1)), 2)

\* C11: the reported median is the middle order statistic of an odd-length sample
\* sequence and the average of the two central order statistics of an even-length
\* one, in whatever order the samples were recorded; the samples 4, 1, 3, 2 have
\* median 2.5.
C11_MedianEvenOddRule ==
    /\ Has("write_latency_median") =>
           results.write_latency_median = MedianRule(latencies)
    /\ Has("read_latency_median") =>
           results.read_latency_median = MedianRule(latencies)
    /\ Has("seek_latency_median") =>
           results.seek_latency_median = MedianRule(latencies)
    /\ median(<<<<4, 1>>, <<1, 1>>, <<3, 1>>, <<2, 1>>>>) = <<5, 2>>

C11_Witness ==
    /\ Has("read_latency_median")
    /\ Len(latencies) = 2
    /\ RLt(latencies[2], latencies[1])
    /\ results.read_latency_median = RDivInt(RAdd(latencies[1], latencies[2]), 2)
    /\ results.read_latency_median # latencies[1]

\* the places in the log of the clear_cache() calls, of those made before the loop,
\* of those made in the loop, and of the timed operations
Calls == {k \in 1..Len(log) : log[k].op = "clear_cache"}

CallsBeforeLoop == {k \in Calls : log[k].at = BeforeLoop}

CallsInLoop == {k \in Calls : log[k].at # BeforeLoop}

Windows == {k \in 1..Len(log) : log[k].op \in {"write", "read", "seek"}}

\* the timed loop of a latency part is running, or is over and not yet torn down
InLatencyLoop == pc \in {"wl_loop", "rl_loop"}

\* the clear_cache() calls made in the loop are made in the iterations k with
\* k mod 5 = 0, once each, ceil(count / 5) of them when the loop is over
CallsEveryFifth(count) ==
    /\ \A k \in 0..(i - 1) :
           Cardinality({c \in CallsInLoop : log[c].at = k})
               = IF k % PeriodicEvery = 0 THEN 1 ELSE 0
    /\ \A c \in CallsInLoop : log[c].at \in 0..(i - 1)
    /\ i = count =>
           Cardinality(CallsInLoop) = (count + PeriodicEvery - 1) \div PeriodicEvery

\* each clear_cache() call made in the loop has ended when the timed window of its
\* iteration starts, and no call overlaps a timed window
CallsOutsideWindows ==
    /\ \A c \in CallsInLoop :
           /\ c + 1 \in Windows
           /\ log[c + 1].at = log[c].at
           /\ log[c].t1 <= log[c + 1].t0
    /\ \A c \in Calls, w \in Windows :
           \/ c < w /\ log[c].t1 <= log[w].t0
           \/ w < c /\ log[w].t1 <= log[c].t0

Prepared == {k \in 1..Len(log) : log[k].op = "prepare"}

Reads == {k \in 1..Len(log) : log[k].op = "read"}

\* C13: in the read-latency workload, for every count >= 1, the count files are all
\* written, untimed, before any timed read starts; a clear_cache call lies between
\* the last preparation write and the first timed read; and each file written is
\* read exactly once (at most once while the loop runs, exactly once when it is
\* over).
C13_ReadAfterPreparationAndFlush ==
    (pc = "rl_loop" /\ args.latency_file_count >= 1) =>
        /\ {log[p].at : p \in Prepared} = 0..(args.latency_file_count - 1)
        /\ Cardinality(Prepared) = args.latency_file_count
        /\ \A p \in Prepared, r \in Reads : p < r /\ log[p].t1 <= log[r].t0
        /\ \E c \in Calls :
               /\ \A p \in Prepared : p < c /\ log[p].t1 <= log[c].t0
               /\ \A r \in Reads : c < r /\ log[c].t1 <= log[r].t0
        /\ Len(latencies) = Cardinality(Reads)
        /\ \A r \in Reads : log[r].at \in {log[p].at : p \in Prepared}
        /\ \A p \in Prepared :
               Cardinality({r \in Reads : log[r].at = log[p].at})
                   = IF log[p].at < i THEN 1 ELSE 0
        /\ i = args.latency_file_count =>
               \A p \in Prepared :
                   Cardinality({r \in Reads : log[r].at = log[p].at}) = 1

C13_Witness ==
    /\ pc = "rl_loop"
    /\ args.latency_file_count = QuickThreshold
    /\ i = args.latency_file_count
    /\ Cardinality(Reads) = QuickThreshold
    /\ \E r \in Reads : log[r].t0 < log[r].t1

\* the three workloads, in the order of the calls in main
Workloads == <<"write_benchmark", "read_benchmark", "random_seek_benchmark">>

\* main is running, or has ended
InSession == session.phase # "none"

\* the workloads that a configured session performs: write_benchmark and
\* read_benchmark do something when a latency or a throughput test is asked for,
\* random_seek_benchmark always does
Performed(c) ==
    {Workloads[k] : k \in {k \in 1..2 : c.latency_test \/ c.throughput_test}}
        \cup {Workloads[3]}

\* the workloads started so far are the first ones in the order write, read, seek,
\* and all but the last of them have returned
StartedInOrder ==
    /\ Len(session.started) <= Len(Workloads)
    /\ session.started = SubSeq(Workloads, 1, Len(session.started))
    /\ \/ session.completed = session.started
       \/ /\ session.started # <<>>
          /\ session.completed = SubSeq(session.started, 1, Len(session.started) - 1)

\* C14: a session runs the write workload, then the read workload, then the
\* random-seek workload, in that order, and each of the three can be configured to
\* be skipped independently of the others: whatever set of workloads is wanted,
\* some choice of the test parameters makes the session perform exactly that set.
C14_OrderedAndEachSkippable ==
    /\ InSession => StartedInOrder
    /\ pc = "main" =>
           \A wanted \in SUBSET Range(Workloads) :
               ENABLED (main /\ Performed(session') = wanted)

\* the keys that a dimension of write_benchmark ("write") or read_benchmark ("read")
\* adds to the result: its statistics and the echo of its count and size
LatencyKeys(w) ==
    IF w = "write"
    THEN {"write_latency_avg", "write_latency_min", "write_latency_max",
          "write_latency_median", "write_latency_file_size_kb",
          "write_latency_file_count"}
    ELSE {"read_latency_avg", "read_latency_min", "read_latency_max",
          "read_latency_median", "read_latency_file_size_kb",
          "read_latency_file_count"}

ThroughputKeys(w) ==
    IF w = "write"
    THEN {"write_throughput_avg", "write_throughput_min", "write_throughput_max",
          "write_throughput_file_size_mb", "write_throughput_file_count"}
    ELSE {"read_throughput_avg", "read_throughput_min", "read_throughput_max",
          "read_throughput_file_size_mb", "read_throughput_file_count"}

\* the keys of a result in which exactly the dimensions asked for are present
KeysAskedFor(w) ==
    (IF args.test_latency THEN LatencyKeys(w) ELSE {})
        \cup (IF args.test_throughput THEN ThroughputKeys(w) ELSE {})

\* C15: the result that write_benchmark or read_benchmark returns holds the fields
\* of a dimension if and only if that dimension was run: no latency key when
\* test_latency is false, no throughput key when test_throughput is false, and
\* every avg/min/max (and median) field and the count and size echo of a dimension
\* that was run.
C15_FieldsIffDimensionRun ==
    /\ (entry = "write_benchmark" /\ ret = "returned") =>
           DOMAIN results = KeysAskedFor("write")
    /\ (entry = "read_benchmark" /\ ret = "returned") =>
           DOMAIN results = KeysAskedFor("read")

C15_Witness ==
    /\ entry = "read_benchmark"
    /\ ret = "returned"
    /\ ~args.test_latency
    /\ args.test_throughput
    /\ DOMAIN results = ThroughputKeys("read")

\* the session has ended in the except clause of main
Failed == session.phase = "failed"

\* the workload that was running when the error was raised
FailedWorkload == session.started[Len(session.started)]

\* the word by which an error report names a workload
PhaseName(w) ==
    IF w = "write_benchmark" THEN "write"
    ELSE IF w = "read_benchmark" THEN "read" ELSE "seek"

\* C16: a fatal error in a workload aborts the remaining workloads of the session
\* (after a failure in write neither read nor seek starts, after a failure in read
\* seek does not start: the session is over, and the workloads started are those
\* that completed and the one that failed), and the error reported to the user
\* identifies the phase that failed.
C16_AbortsAndNamesPhase ==
    Failed =>
        /\ pc = "done"
        /\ session.started = Append(session.completed, FailedWorkload)
        /\ \E k \in 1..Len(session.printed) :
               /\ "phase" \in DOMAIN session.printed[k]
               /\ session.printed[k].phase = PhaseName(FailedWorkload)

\* C17: when a fatal error aborts a session, the results of the workloads that
\* completed before it are not discarded: once main is over they are still held,
\* or have been displayed (stated for the sessions that run the latency tests, whose
\* completed workloads have returned statistics).
C17_PartialResultsKept ==
    (Failed /\ session.completed # <<>> /\ session.latency_test) =>
        \/ session.write_results.set
        \/ session.displayed # <<>>

----------------------------------------------------------------------------
Ops(events) == [k \in 1..Len(events) |-> events[k].op]

InClearCache == entry = "clear_cache"

StepRaised == \E k \in 1..Len(log) : log[k].op = "raised"

(* C18: clear_cache never raises to its caller: whatever step of it fails, the
   failure is caught and reported as a warning, and the call returns; and a
   call that has returned has ended with the pause of ClearCacheTicks (0.25 s),
   the pause being the last thing it did. *)
C18_NeverRaisesAndEndsWithPause ==
    InClearCache =>
        /\ ret # "raised"
        /\ pc = "exit" =>
              /\ ret = "returned"
              /\ log # <<>>
              /\ Last(log) = Event("sleep", BeforeLoop, now - ClearCacheTicks, now)
              /\ StepRaised =>
                    /\ Len(log) >= 3
                    /\ log[Len(log) - 2].op = "raised"
                    /\ log[Len(log) - 1].op = "warning"

C18_Witness ==
    /\ InClearCache
    /\ pc = "exit"
    /\ ret = "returned"
    /\ error = "MemoryError"
    /\ StepRaised
    /\ Last(log).op = "sleep"

FallbackOps == SelectSeq(Ops(log), LAMBDA op : op \in Range(Fallback))

PrivilegedRaised ==
    /\ log # <<>>
    /\ log[1].op = "NtSetSystemInformation raised"

AfterFallback(k) == IF HAS_WIN32 THEN k + 1 ELSE k

(* C19: every clear_cache call performs the fallback (random data, temporary
   file written, synced, read back and deleted), whether the privileged flush
   was not attempted, succeeded or raised: once the try block is over, the
   steps of the fallback have been done in order and in full, or up to the
   step of the fallback that itself raised. *)
C19_FallbackRegardlessOfPrivilegedFlush ==
    (InClearCache /\ pc \in {"cc_array", "cc_fill", "cc_warn", "cc_pause", "exit"}) =>
        LET done == Len(FallbackOps) IN
        /\ done <= Len(Fallback)
        /\ FallbackOps = SubSeq(Fallback, 1, done)
        /\ Ops(SubSeq(log, AfterFallback(1), AfterFallback(done))) = FallbackOps
        /\ done < Len(Fallback) =>
              /\ Len(log) > AfterFallback(done)
              /\ log[AfterFallback(done) + 1].op = "raised"

C19_Witness ==
    /\ InClearCache
    /\ pc = "exit"
    /\ PrivilegedRaised
    /\ FallbackOps = Fallback
    /\ ~StepRaised

----------------------------------------------------------------------------
\* the positions at which a workload has been called and has not yet made its
\* first scratch directory, or has returned or raised
BetweenWorkloads ==
    pc \in {"main", "main_try", "write_benchmark", "read_benchmark",
            "random_seek_benchmark", "exit", "done"}

\* the workloads that have been called and have neither returned nor raised
Active ==
    {w \in Range(Workloads) :
        /\ w \in Range(session.started)
        /\ w \notin Range(session.completed)
        /\ ~Failed}

(* C20: a session runs strictly sequentially: at most one workload is active at
   any time, a workload is called only after the one before it has returned,
   and its scratch directory has been removed by then: at no point do two
   scratch directories of the session exist, a directory that exists is the one
   of the part in progress (or the one a failed part left behind, after which
   nothing more runs), and the timed windows of the operations never overlap. *)
C20_StrictlySequential ==
    InSession =>
        /\ Cardinality(Active) <= 1
        /\ Cardinality(dirs) <= 1
        /\ dirs \subseteq {benchmark_dir}
        /\ StartedInOrder
        /\ (pc \in Range(Workloads) \/ session.phase = "done") => dirs = {}
        /\ (BetweenWorkloads /\ dirs # {}) => (ret = "raised" /\ pc \in {"exit", "done"})
        /\ \A k \in 1..(Len(log) - 1) : log[k].t1 <= log[k + 1].t0

C20_Witness ==
    /\ session.phase = "random_seek_benchmark"
    /\ session.completed = <<"write_benchmark", "read_benchmark">>
    /\ session.latency_test
    /\ session.throughput_test
    /\ io.mkdir = 5
    /\ dirs = {benchmark_dir}
    /\ Len(log) >= 2

----------------------------------------------------------------------------
(* C21: the names of the scratch directories are unique per invocation: no two
   of the directories made so far, by whichever parts of whichever workloads,
   have been given the same name. *)
C21_ScratchNamesUnique ==
    \A j \in 1..Len(io.made) : \A k \in 1..Len(io.made) :
        j # k => io.made[j] # io.made[k]

----------------------------------------------------------------------------
LatencyMetrics(category) ==
    IF category = "write"
    THEN {"write_latency_avg", "write_latency_min", "write_latency_max",
          "write_latency_median"}
    ELSE IF category = "read"
    THEN {"read_latency_avg", "read_latency_min", "read_latency_max",
          "read_latency_median"}
    ELSE {"seek_latency_avg", "seek_latency_min", "seek_latency_max",
          "seek_latency_median"}

ThroughputMetrics(category) ==
    IF category = "write"
    THEN {"write_throughput_avg", "write_throughput_min", "write_throughput_max"}
    ELSE IF category = "read"
    THEN {"read_throughput_avg", "read_throughput_min", "read_throughput_max"}
    ELSE {}

\* the rows of benchmark_results of a session and a category, without the session
RowsOf(session_id, category) ==
    {[metric |-> r.metric, value |-> r.value, unit |-> r.unit] :
        r \in {q \in db.benchmark_results :
                  q.session_id = session_id /\ q.category = category}}

\* the rows that the summary metrics of a bundle are to give
SummaryRows(category, bundle) ==
    {[metric |-> m,
      value |-> <<1000 * bundle[m][1], bundle[m][2]>>,
      unit |-> "ms"] : m \in LatencyMetrics(category) \cap DOMAIN bundle}
    \cup
    {[metric |-> m, value |-> bundle[m], unit |-> "MB/s"] :
        m \in ThroughputMetrics(category) \cap DOMAIN bundle}

\* v and w are the same number
SameNumber(v, w) == v[1] * w[2] = w[1] * v[2]

(* C22: for every call of save_benchmark_results and each of the categories
   write, read and seek, the rows stored are exactly those of the summary metrics
   of the bundle: a latency avg/min/max/median as 1000 times the value of the core
   with unit ms, a throughput avg/min/max unchanged with unit MB/s, and no row
   for a file count, a file size or num_seeks. *)
C22_StoredRowsAreSummaryMetrics ==
    \A k \in 1..Len(db.saved) :
        LET saved == db.saved[k] IN
        \A category \in {"write", "read", "seek"} :
            LET stored == RowsOf(saved.session_id, category)
                wanted == SummaryRows(category, saved[category])
            IN  /\ \A r \in stored : \E q \in wanted :
                       /\ q.metric = r.metric
                       /\ q.unit = r.unit
                       /\ SameNumber(q.value, r.value)
                /\ \A q \in wanted : \E r \in stored :
                       /\ q.metric = r.metric
                       /\ q.unit = r.unit
                       /\ SameNumber(q.value, r.value)
                /\ Cardinality(stored) = Cardinality(wanted)

C22_Witness ==
    \E k \in 1..Len(db.saved) :
        /\ "write_latency_file_count" \in DOMAIN db.saved[k].write
        /\ "read_throughput_file_size_mb" \in DOMAIN db.saved[k].read
        /\ "write_latency_avg" \notin DOMAIN db.saved[k].read
        /\ db.saved[k].seek.seek_latency_avg = <<1, 2>>
        /\ \E r \in db.benchmark_results :
              /\ r.session_id = db.saved[k].session_id
              /\ r.metric = "seek_latency_avg"
              /\ r.value = <<500, 1>>
              /\ r.unit = "ms"

----------------------------------------------------------------------------
\* the device data made of the three results that a finished session holds
DeviceData ==
    convert_benchmarks_to_device_data(session.displayed[1], session.displayed[2],
                                      session.displayed[3])

(* C23: the data handed to the reporting layer, made of the results of a
   finished session, hold a latency value that is not null for write and for
   read (1000 times the average of the core) when the latency dimension was
   tested, a throughput average that is not null for write and for read when the
   throughput dimension was tested, and null exactly for a dimension that was
   skipped; the random-read latency is never null. *)
C23_NonNullIffDimensionTested ==
    (InSession /\ session.phase = "done") =>
        /\ (DeviceData.latency.write_ms # None) <=> session.latency_test
        /\ (DeviceData.latency.read_ms # None) <=> session.latency_test
        /\ (DeviceData.throughput.write_mbps # None) <=> session.throughput_test
        /\ (DeviceData.throughput.read_mbps # None) <=> session.throughput_test
        /\ DeviceData.latency.random_read_ms # None
        /\ session.latency_test =>
              /\ SameNumber(DeviceData.latency.write_ms,
                            <<1000 * session.displayed[1].write_latency_avg[1],
                              session.displayed[1].write_latency_avg[2]>>)
              /\ SameNumber(DeviceData.latency.read_ms,
                            <<1000 * session.displayed[2].read_latency_avg[1],
                              session.displayed[2].read_latency_avg[2]>>)
        /\ session.throughput_test =>
              /\ DeviceData.throughput.write_mbps
                    = session.displayed[1].write_throughput_avg
              /\ DeviceData.throughput.read_mbps
                    = session.displayed[2].read_throughput_avg

C23_Witness ==
    /\ InSession
    /\ session.phase = "done"
    /\ session.latency_test
    /\ ~session.throughput_test
    /\ DeviceData.latency.write_ms = <<0, 1>>
    /\ DeviceData.latency.read_ms # None
    /\ DeviceData.throughput.read_mbps = None

----------------------------------------------------------------------------
\* the size in MB of the test file that random_seek_benchmark has written
CreatedSizeMB == Cardinality({k \in 1..Len(log) : log[k].op = "prepare"})

SeekFileCreated == pc \in {"sk_positions", "sk_loop", "sk_stats"}

(* C24: for the call that main makes, the size of the seek test file is
   min(throughput size * 2, 100) MB, brought down to at most 30 MB when
   num_seeks <= 30; the file that is created has that size, and the file_size_mb
   of the result is the size of the file that was created. *)
C24_SeekFileSizeDerivedAndEchoed ==
    (entry = "random_seek_benchmark" /\ "seek_count" \in DOMAIN session) =>
        LET doubled == session.throughput_file_size_mb * 2
            derived == IF doubled <= 100 THEN doubled ELSE 100
            size == IF session.seek_count <= 30 /\ derived > 30 THEN 30 ELSE derived
        IN  /\ args.num_seeks = session.seek_count
            /\ pc = "random_seek_benchmark" => args.file_size_mb = derived
            /\ SeekFileCreated => CreatedSizeMB = size
            /\ ret = "returned" =>
                  /\ results.file_size_mb = size
                  /\ results.file_size_mb = CreatedSizeMB
                  /\ results.num_seeks = session.seek_count

C24_Witness ==
    /\ entry = "random_seek_benchmark"
    /\ "seek_count" \in DOMAIN session
    /\ session.throughput_file_size_mb * 2 > 100
    /\ session.seek_count = 30
    /\ ret = "returned"
    /\ results.file_size_mb = 30
    /\ CreatedSizeMB = 30

----------------------------------------------------------------------------
\* the throughput part of write_benchmark has made its directory
InWriteThroughput ==
    /\ entry = "write_benchmark"
    /\ benchmark_dir[1] = "benchmark_test_thr"
    /\ args.throughput_file_size_mb >= 1

\* the places in the log of the timed operations
Timed(op) == {k \in 1..Len(log) : log[k].op = op}

\* every timed operation op comes right after a cache flush of its iteration that
\* was over when the timed window opened
FlushBeforeEach(op) ==
    \A k \in Timed(op) :
        /\ k > 1
        /\ log[k - 1].op = "clear_cache"
        /\ log[k - 1].at = log[k].at
        /\ log[k - 1].t1 <= log[k].t0

\* the files were written one after the other, from file 0 on
WrittenInOrder ==
    \A k \in Timed("write") : log[k].at = Cardinality({j \in Timed("write") : j < k})

\* the throughput values recorded are size / duration of the files written so far
ValuePerFile ==
    \A k \in Timed("write") :
        /\ log[k].at + 1 <= Len(throughputs)
        /\ log[k].t1 > log[k].t0
        /\ SameNumber(throughputs[log[k].at + 1],
                      <<args.throughput_file_size_mb, log[k].t1 - log[k].t0>>)

\* the part is over and no step of I/O has failed
WriteThroughputOver ==
    \/ pc \in {"wt_stats", "w_return"}
    \/ pc = "exit" /\ error # "OSError"

\* all of the claim but the value per file
C25_Cadence ==
    InWriteThroughput =>
        /\ FlushBeforeEach("write")
        /\ WrittenInOrder
        /\ Cardinality(Timed("write")) <= Min2(3, args.num_files)
        /\ Len(throughputs) <= Cardinality(Timed("write"))

(* C25: the write-throughput workload writes exactly min(3, requested count)
   files, flushes the cache before the timed write of each file and outside the
   timed window, and records exactly one throughput value, size / duration, for
   each file it has written. *)
C25_WriteThroughputPerFile ==
    InWriteThroughput =>
        /\ FlushBeforeEach("write")
        /\ WrittenInOrder
        /\ Len(throughputs) = Cardinality(Timed("write"))
        /\ ValuePerFile
        /\ WriteThroughputOver =>
              Cardinality(Timed("write")) = Min2(3, args.num_files)

----------------------------------------------------------------------------
\* the throughput part of read_benchmark has made its directory
InReadThroughput ==
    /\ entry = "read_benchmark"
    /\ benchmark_dir[1] = "benchmark_test_thr"
    /\ args.throughput_file_size_mb >= 1

\* the number of 1 MB chunks written to file f
ChunksOf(f) == Cardinality({k \in 1..Len(log) : log[k].op = "chunk" /\ log[k].at = f})

(* C26: the read-throughput workload writes each of its files at twice the
   requested throughput size; before the first timed read it has written all of
   them and flushed the cache twice, with a pause of a second between the two
   flushes; each file is then read, once and in order, by read_with_no_buffering
   with the doubled size as its expected size; and read_throughput_file_size_mb
   of the result is the doubled size. *)
C26_DoubledFilesTwoFlushesThenReads ==
    InReadThroughput =>
        /\ \A p \in Prepared :
              /\ ChunksOf(log[p].at) = 2 * args.throughput_file_size_mb
              /\ file_sizes[log[p].at + 1] = 2 * args.throughput_file_size_mb * MB
        /\ Timed("read") # {} =>
              LET first == CHOOSE r \in Timed("read") : \A q \in Timed("read") : r <= q
              IN  /\ Cardinality(Prepared) = Min2(3, args.num_files)
                  /\ \A p \in Prepared : p < first - 2
                  /\ first > 2
                  /\ log[first - 2].op = "clear_cache"
                  /\ log[first - 1].op = "clear_cache"
                  /\ log[first - 1].t0 - log[first - 2].t1 >= TicksPerSecond
                  /\ log[first - 1].t1 <= log[first].t0
        /\ FlushBeforeEach("read")
        /\ \A r \in Timed("read") :
              log[r].at = Cardinality({q \in Timed("read") : q < r})
        /\ (Timed("read") # {} /\ last_read.ok) =>
              /\ Len(throughputs) = Cardinality(Timed("read"))
              /\ Last(throughputs) = last_read.throughput
              /\ SameNumber(last_read.throughput,
                            <<2 * args.throughput_file_size_mb, last_read.duration>>)
        /\ pc \in {"rt_stats", "r_return"} =>
              Cardinality(Timed("read")) = Cardinality(Prepared)
        /\ Has("read_throughput_avg") =>
              results.read_throughput_file_size_mb = 2 * args.throughput_file_size_mb

C26_Witness ==
    /\ InReadThroughput
    /\ ret = "returned"
    /\ args.throughput_file_size_mb = 2
    /\ results.read_throughput_file_size_mb = 4
    /\ Cardinality(Timed("read")) = 2
    /\ ChunksOf(1) = 4

----------------------------------------------------------------------------
InReadCall == entry = "read_with_no_buffering"

\* the least number of chunks of size c that hold n bytes
Chunks(n, c) == (n + c - 1) \div c

\* the read loop of the direct path has ended without an error of ReadFile
DirectLoopOver ==
    \/ pc = "d_done"
    \/ pc = "d_finally" /\ call.pending \in {"return", "ZeroDivisionError"}

(* C27: read_with_no_buffering reads in chunks of a fixed size that is a multiple
   of the sector size (4096), from offsets that are multiples of it; the direct
   loop goes on only while fewer than the declared number of bytes have been
   consumed and ends when they have been consumed or the source is exhausted,
   the buffered loop ends when the source is exhausted, and both end after a
   bounded number of reads; and on the direct and on the fallback path the
   throughput reported is declared size / (1024 * 1024) / duration, whatever the
   number of bytes that were read. *)
C27_ChunkedReadAndDeclaredSizeThroughput ==
    InReadCall =>
        /\ buffer_size % 4096 = 0
        /\ chunk_size % 4096 = 0
        /\ call.offset % 4096 = 0
        /\ \A k \in Timed("ReadFile") : log[k].at <= buffer_size
        /\ \A k \in Timed("read") : log[k].at <= chunk_size
        /\ \A k \in Timed("ReadFile") \cup Timed("read") :
              \A j \in Timed("ReadFile") \cup Timed("read") :
                  (log[j].op = log[k].op /\ j < k /\ log[k].at > 0)
                      => log[j].at = IF log[j].op = "read" THEN chunk_size
                                     ELSE buffer_size
        /\ DirectLoopOver =>
              \/ call.total_bytes_read >= call.file_size_bytes
              \/ call.offset = call.on_disk
        /\ pc = "sr_done" => call.offset = call.on_disk
        /\ Cardinality(Timed("ReadFile"))
              <= Chunks(call.file_size_bytes, buffer_size) + 1
        /\ Cardinality(Timed("read")) <= Chunks(call.on_disk, chunk_size) + 1
        /\ ret = "returned" =>
              /\ call.result.duration > 0
              /\ call.result.duration = now - call.start_time
              /\ call.result.throughput
                    = Rat(call.file_size_bytes, 1024 * 1024 * call.result.duration)

C27_Witness ==
    /\ InReadCall
    /\ ret = "returned"
    /\ call.fallback
    /\ call.caught = "Exception"
    /\ call.on_disk < call.file_size_bytes
    /\ call.offset = call.on_disk
    /\ Cardinality(Timed("read")) >= 2
    /\ call.result.throughput = <<5, 2>>

(* C28: on the direct path a handle that CreateFile has opened is closed exactly
   once on every way out (the return, an error code of ReadFile, an exception in
   the loop or in the division), it is closed before the buffered fallback opens
   the file, and nothing is closed when CreateFile itself has failed. *)
C28_HandleClosedExactlyOnce ==
    InReadCall =>
        /\ call.opened <= 1
        /\ call.closed <= call.opened
        /\ call.closed = Cardinality(Timed("CloseHandle"))
        /\ call.opened = Cardinality(Timed("CreateFile"))
        /\ pc \in {"d_except", "sr_open", "sr_loop", "sr_done", "exit"} =>
              /\ call.closed = call.opened
              /\ call.handle # "open"
        /\ \A k \in Timed("open") : \A j \in Timed("CreateFile") :
              \E c \in Timed("CloseHandle") : j < c /\ c < k
        /\ \A k \in Timed("CloseHandle") :
              \E j \in Timed("CreateFile") : j < k

C28_Witness ==
    /\ InReadCall
    /\ pc = "exit"
    /\ call.opened = 1
    /\ call.closed = 1
    /\ call.fallback
    /\ call.caught = "Exception"
    /\ Timed("open") # {}

\* the file made by NamedTemporaryFile(delete=False) is on disk: it has been
\* created and os.unlink has not removed it
TempFileExists ==
    /\ \E k \in 1..Len(log) : log[k].op = "NamedTemporaryFile"
    /\ \A k \in 1..Len(log) : log[k].op # "unlink"

(* C29: when clear_cache has returned, the temporary file it created no longer
   exists, whichever step of it failed after the file was created. *)
C29_TempFileRemovedOnReturn ==
    (InClearCache /\ ret = "returned") => ~TempFileExists

InDevices == entry = "save_device_info"

\* the rows of the devices table for one device_id
DeviceRows(rows, device_id) == {r \in rows : r.device_id = device_id}

\* the columns a repeated save may change
SeenColumns == {"drive_letter", "volume_name", "size_gb", "last_seen"}

\* what one call of save_device_info that commits does to the devices table
SaveDeviceStep ==
    LET device_info == call'.device_info
        device_id == device_info["device_id"]
    IN  /\ \A d \in DeviceIds :
              Cardinality(DeviceRows(db'.devices, d))
                  = IF d = device_id \/ DeviceRows(db.devices, d) # {} THEN 1 ELSE 0
        /\ \A r \in db.devices : r.device_id # device_id => r \in db'.devices
        /\ \A r \in DeviceRows(db.devices, device_id) :
              \E r2 \in DeviceRows(db'.devices, device_id) :
                  /\ \A f \in (DOMAIN r) \ SeenColumns : r2[f] = r[f]
                  /\ r2.drive_letter = device_info["DriveLetter"]
                  /\ r2.volume_name = get(device_info, "VolumeName", "No Label")
                  /\ r2.size_gb = device_info["SizeGB"]
                  /\ r2.last_seen = call'.timestamp
        /\ \A r2 \in db'.devices : ~TextBefore(r2.last_seen, r2.first_seen)

(* C30: every call of save_device_info leaves exactly one row for each device_id
   saved so far and none for the others; a call for a device_id that has a row
   sets drive_letter, volume_name, size_gb and last_seen of that row, leaves its
   other columns (first_seen, model, vendor, serial_number among them) and the
   rows of other devices as they were, and no row has a last_seen before its
   first_seen. *)
C30_OneRowPerDeviceUpdatedInPlace ==
    [][(InDevices /\ call'.saves = call.saves + 1) =>
            IF call'.outcome = "done" THEN SaveDeviceStep ELSE db' = db]_vars

C30_Witness ==
    /\ InDevices
    /\ call.saves = 3
    /\ call.outcome = "done"
    /\ Cardinality(db.devices) = 2
    /\ \E r \in DeviceRows(db.devices, call.device_info["device_id"]) :
          /\ TextBefore(r.first_seen, r.last_seen)
          /\ r.model # get(call.device_info, "Model", "Unknown Model")
          /\ r.drive_letter = call.device_info["DriveLetter"]
          /\ \E k \in Timed("INSERT") :
                /\ log[k].at.id = r.id
                /\ log[k].at.drive_letter # r.drive_letter
                /\ log[k].at.model = r.model

====
